---- MODULE Spec2Model ----
(***************************************************************************)
(* ctrld-sync-go: synchronisation of Control D folders with remote         *)
(* rule-set definitions (src/main.go, second program text, lines 593 on).  *)
(*                                                                         *)
(* Strings that the program inspects are sequences: a folder name is a     *)
(* sequence of one-character strings (so that strings.TrimSpace is a real   *)
(* operation), a hostname is a sequence of character codes (<<>> is the    *)
(* empty string).  Folder identifiers and URLs are opaque and are TLA+      *)
(* strings.                                                                 *)
(***************************************************************************)
EXTENDS Integers, Sequences, FiniteSets, TLC

VARIABLES
    profileIDs,       \* main.go:698  configured profile ids, in order
    FolderURLs,       \* main.go:625  definition URLs, in order
    source,           \* what an HTTP GET of each definition URL can return
    remote,           \* the Control D side: per profile, its folders and rules
    remote0,          \* the remote as it was before the run (never changes)
    mayFail,          \* per profile: the kinds of request that can fail in this run
    cache,            \* main.go:701  url -> FolderData
    cacheMutex,       \* main.go:702  sync.RWMutex: readers and writer
    semaphore,        \* main.go:1275 number of slots taken in the channel
    wg,               \* main.go:1276 WaitGroup counter
    allResults,       \* main.go:1279
    successCount,     \* main.go:1277
    exitCode,         \* -1 while main is running, then the process status
    pc,               \* per goroutine: where its pipeline stands
    urlIdx,           \* per goroutine: index into FolderURLs (main.go:1084)
    folderDataList,   \* per goroutine (main.go:1083)
    existingFolders,  \* per goroutine (main.go:1099)
    existingRules,    \* per goroutine (main.go:1113)
    idx,              \* per goroutine: loop index into folderDataList
    folderID,         \* per goroutine: id returned by createFolder
    result,           \* per goroutine: the ProfileResult being built
    calls,            \* per goroutine: the requests it has issued so far
    data,             \* per goroutine: the local data of ghGet (main.go:840)
    push,             \* one call of pushRules: its arguments and what it returns
    retry,            \* one call of retryRequest: its locals and what it returns
    prev,             \* the previous run of the program on the same remote, if any
    logs,             \* per goroutine: the messages logged on its error paths
    listing           \* one call of listExistingFolders: the response and the map

vars == <<profileIDs, FolderURLs, source, remote, remote0, mayFail, cache, cacheMutex,
          semaphore, wg, allResults, successCount, exitCode, pc, urlIdx,
          folderDataList, existingFolders, existingRules, idx, folderID,
          result, calls, data, push, retry, prev, logs, listing>>

\* the variables of the pipelines and of main
pipeVars == <<profileIDs, FolderURLs, source, remote, remote0, mayFail, cache,
              cacheMutex, semaphore, wg, allResults, successCount, exitCode, pc,
              urlIdx, folderDataList, existingFolders, existingRules, idx,
              folderID, result, calls, data, prev, logs>>

----------------------------------------------------------------------------
(* Program constants (main.go:615-623).                                    *)

BatchSize == 500
MaxRetries == 3
\* in seconds
RetryDelay == 1
\* in seconds
FolderCreationDelay == 2
MaxConcurrentProfiles == 3

(* Bounds of the model.                                                    *)

\* number of configured profiles in the concurrency specification
MaxProfiles == 4
\* number of definition URLs in the single-profile specification
MaxURLs == 2
\* largest number of batches of one call in the specification of pushRules
MaxBatches == 3
\* largest number of groups in a response in the specification of
\* listExistingFolders
MaxGroups == 2
\* number of configured profiles in the specification of the cache
MaxCacheProfiles == 2

----------------------------------------------------------------------------
(* Generic helpers.                                                        *)

Range(s) == {s[i] : i \in 1..Len(s)}

Min(a, b) == IF a < b THEN a ELSE b

EmptyMap == <<>>

\* m[k] = v, as Go's map assignment
MapSet(m, k, v) == [x \in (DOMAIN m) \cup {k} |-> IF x = k THEN v ELSE m[x]]

Perms(n) == {f \in [1..n -> 1..n] : \A i, j \in 1..n : f[i] = f[j] => i = j}

Permute(s, f) == [i \in 1..Len(s) |-> s[f[i]]]

\* subsequence s[i+1 .. j], as Go's s[i:j]
Slice(s, i, j) == [k \in 1..(j - i) |-> s[i + k]]

\* a faulty variant of SelectSeq2 (the first member is always kept), which
\* C11 must reject
MutSelectSeq2(s, ex) == SelectSeq(s, LAMBDA h : h \notin ex \/ h = s[1])

\* the members of s that are not in set ex, in order
SelectSeq2(s, ex) == SelectSeq(s, LAMBDA h : h \notin ex)

----------------------------------------------------------------------------
(* strings.TrimSpace on a sequence of characters.                          *)

IsSpace(c) == c = " "

RECURSIVE TrimLeft(_)
TrimLeft(s) ==
    IF s # <<>> /\ IsSpace(Head(s)) THEN TrimLeft(Tail(s)) ELSE s

RECURSIVE TrimRight(_)
TrimRight(s) ==
    IF s # <<>> /\ IsSpace(s[Len(s)]) THEN TrimRight(SubSeq(s, 1, Len(s) - 1))
    ELSE s

TrimSpace(s) == TrimRight(TrimLeft(s))

----------------------------------------------------------------------------
(* JSON values of the PK field of a group (main.go:665-668) and their      *)
(* conversion (main.go:854-870).                                           *)

PKNil == [t |-> "nil"]
PKString(s) == [t |-> "string", s |-> s]
PKNumber(n) == [t |-> "float64", n |-> n]

\* strconv.Itoa / FormatFloat(v, 'f', 0, 64) on the small naturals used as ids
Itoa(n) ==
    CASE n = 0 -> "0" [] n = 1 -> "1" [] n = 2 -> "2" [] n = 3 -> "3"
      [] n = 4 -> "4" [] n = 5 -> "5" [] n = 6 -> "6" [] n = 7 -> "7"
      [] n = 8 -> "8" [] n = 9 -> "9" [] OTHER -> "big"

interfaceToString(v) ==
    CASE v.t = "nil" -> ""
      [] v.t = "string" -> v.s
      [] v.t = "int" -> Itoa(v.n)
      [] v.t = "int64" -> Itoa(v.n)
      [] v.t = "float64" -> Itoa(v.n)

----------------------------------------------------------------------------
(* The Control D API as the program sees it (spec section 6): per profile  *)
(* an ordered collection of groups, each with its rules, and the rules of   *)
(* the root scope.  A request that fails leaves the remote unchanged.       *)

\* GET /{profile}/groups: the groups in the order the server chooses to list them
RemoteGroups(rem, order) ==
    Permute([i \in 1..Len(rem.groups) |->
                [Group |-> rem.groups[i].Group, PK |-> rem.groups[i].PK]], order)

RemoteIds(rem) == {interfaceToString(rem.groups[i].PK) : i \in 1..Len(rem.groups)}

\* DELETE /{profile}/groups/{id}
RemoteDelete(rem, id) ==
    [rem EXCEPT !.groups =
        SelectSeq(rem.groups, LAMBDA g : interfaceToString(g.PK) # id)]

\* POST /{profile}/groups: the server names the new group and numbers it
RemoteCreate(rem, name) ==
    [rem EXCEPT !.groups = Append(rem.groups,
                    [Group |-> name, PK |-> PKNumber(rem.nextPK), rules |-> {}]),
                !.nextPK = rem.nextPK + 1]

\* POST /{profile}/rules with group=id: the hostnames are stored in that group
RemoteAddRules(rem, id, hosts) ==
    [rem EXCEPT !.groups =
        [i \in 1..Len(rem.groups) |->
            IF interfaceToString(rem.groups[i].PK) = id
            THEN [rem.groups[i] EXCEPT !.rules = @ \cup hosts]
            ELSE rem.groups[i]]]

\* GET /{profile}/rules/{id}
RemoteFolderRules(rem, id) ==
    UNION {rem.groups[i].rules :
             i \in {j \in 1..Len(rem.groups) : interfaceToString(rem.groups[j].PK) = id}}

\* every hostname stored in the profile, root scope and folders
RemoteAllRules(rem) ==
    rem.rules \cup UNION {rem.groups[i].rules : i \in 1..Len(rem.groups)}

----------------------------------------------------------------------------
(* retryRequest (main.go:722-748).  outcomes[k] says whether attempt k      *)
(* completes without transport error and with status < 400.                *)

\* a faulty variant of WaitTime (the delay does not grow), which C18 must reject
MutWaitTime(attempt) == RetryDelay

\* waitTime := RetryDelay * time.Duration(1<<attempt) (main.go:742)
WaitTime(attempt) == RetryDelay * (2 ^ attempt)

RECURSIVE RetryFrom(_, _, _)
RetryFrom(outcomes, attempt, waited) ==
    IF attempt >= MaxRetries
    THEN [ok |-> FALSE, attempts |-> attempt, waits |-> waited]
    ELSE IF outcomes[attempt + 1]
    THEN [ok |-> TRUE, attempts |-> attempt + 1, waits |-> waited]
    ELSE IF attempt = MaxRetries - 1
    THEN [ok |-> FALSE, attempts |-> attempt + 1, waits |-> waited]
    ELSE RetryFrom(outcomes, attempt + 1, Append(waited, WaitTime(attempt)))

retryRequest(outcomes) == RetryFrom(outcomes, 0, <<>>)

\* what apiGet / apiDelete / apiPost / apiPostForm can report to their caller
ApiOutcomes == {retryRequest(o).ok : o \in [1..MaxRetries -> BOOLEAN]}

----------------------------------------------------------------------------
(* listExistingFolders (main.go:886-894): the map built from a response.    *)

RECURSIVE FoldersFrom(_, _)
FoldersFrom(groups, folders) ==
    IF groups = <<>> THEN folders
    ELSE LET folder == Head(groups)
             pkStr == interfaceToString(folder.PK)
         IN  FoldersFrom(Tail(groups),
                 IF folder.Group # <<>> /\ pkStr # ""
                 THEN MapSet(folders, TrimSpace(folder.Group), pkStr)
                 ELSE folders)

\* a faulty variant of listExistingFolders (the response is read from its end,
\* so the first group of a name wins), which C28 must reject
MutListExistingFolders(groups) ==
    FoldersFrom([i \in 1..Len(groups) |-> groups[Len(groups) + 1 - i]], EmptyMap)

listExistingFolders(groups) == FoldersFrom(groups, EmptyMap)

(* getAllExistingRules (main.go:898-953).  rootOk, listOk: whether the two   *)
(* requests succeed (and decode); failIds: the folders whose rule listing   *)
(* fails or does not decode.                                               *)

NonEmpty(hosts) == {h \in hosts : h # <<>>}

\* a faulty variant of getAllExistingRules (the rules of the folders are left
\* out of the index), which C21 must reject
MutGetAllExistingRules(rem, rootOk, listOk, order, failIds) ==
    [err |-> ~listOk, allRules |-> IF rootOk THEN NonEmpty(rem.rules) ELSE {}]

getAllExistingRules(rem, rootOk, listOk, order, failIds) ==
    LET rootRules == IF rootOk THEN NonEmpty(rem.rules) ELSE {}
        folders == listExistingFolders(RemoteGroups(rem, order))
        ids == {folders[n] : n \in DOMAIN folders} \ failIds
    IN  IF ~listOk
        THEN [err |-> TRUE, allRules |-> rootRules]
        ELSE [err |-> FALSE,
              allRules |-> rootRules \cup
                  UNION {NonEmpty(RemoteFolderRules(rem, id)) : id \in ids}]

----------------------------------------------------------------------------
(* pushRules (main.go:1004-1075).  accepted[b] says whether apiPostForm      *)
(* succeeds for batch b.                                                   *)

\* a faulty variant of FilterHostnames (the test is inverted), which C10 must
\* reject
MutFilterHostnames(hostnames, existing) ==
    SelectSeq(hostnames, LAMBDA h : h \in existing)

FilterHostnames(hostnames, existing) == SelectSeq2(hostnames, existing)

\* a faulty variant of TotalBatches (one more than the quotient), which C14
\* must reject
MutTotalBatches(n) == (n \div BatchSize) + 1

\* main.go:1031
TotalBatches(n) == (n + BatchSize - 1) \div BatchSize

\* batch number b (from 1) of the filtered list: filteredHostnames[i:end]
Batch(filtered, b) ==
    Slice(filtered, (b - 1) * BatchSize, Min(b * BatchSize, Len(filtered)))

Batches(filtered) ==
    [b \in 1..TotalBatches(Len(filtered)) |-> Batch(filtered, b)]

\* a faulty variant of RulesAdded (the loop stops at the first batch that
\* fails), which C15 must reject
RECURSIVE MutRulesAdded(_, _, _)
MutRulesAdded(batches, accepted, b) ==
    IF b > Len(batches) \/ ~accepted[b] THEN 0
    ELSE Len(batches[b]) + MutRulesAdded(batches, accepted, b + 1)

\* a faulty variant of RulesAdded (the hostnames of every batch sent are
\* counted, accepted or not), which C35 must reject
RECURSIVE MutCountSent(_, _, _)
MutCountSent(batches, accepted, b) ==
    IF b > Len(batches) THEN 0
    ELSE Len(batches[b]) + MutCountSent(batches, accepted, b + 1)

RECURSIVE RulesAdded(_, _, _)
RulesAdded(batches, accepted, b) ==
    IF b > Len(batches) THEN 0
    ELSE (IF accepted[b] THEN Len(batches[b]) ELSE 0)
         + RulesAdded(batches, accepted, b + 1)

\* a faulty variant of AcceptedHosts (nothing is remembered), which C12 must
\* reject
MutAcceptedHosts(batches, accepted) == {}

AcceptedHosts(batches, accepted) ==
    UNION {Range(batches[b]) : b \in {c \in 1..Len(batches) : accepted[c]}}

\* a faulty variant of PushSuccess (failed batches are not noticed), which C16
\* must reject
MutPushSuccess(successfulBatches, totalBatches) == TRUE

\* main.go:1068-1074
PushSuccess(successfulBatches, totalBatches) == successfulBatches = totalBatches

pushRules(hostnames, existing, accepted) ==
    LET filtered == FilterHostnames(hostnames, existing)
        duplicatesCount == Len(hostnames) - Len(filtered)
        batches == Batches(filtered)
        successfulBatches == Cardinality({b \in 1..Len(batches) : accepted[b]})
    IN  IF Len(hostnames) = 0
        THEN [rulesAdded |-> 0, duplicates |-> 0, ok |-> TRUE,
              existingRules |-> existing, batches |-> <<>>]
        ELSE IF Len(filtered) = 0
        THEN [rulesAdded |-> 0, duplicates |-> duplicatesCount, ok |-> TRUE,
              existingRules |-> existing, batches |-> <<>>]
        ELSE [rulesAdded |-> RulesAdded(batches, accepted, 1),
              duplicates |-> duplicatesCount,
              ok |-> PushSuccess(successfulBatches, Len(batches)),
              existingRules |-> existing \cup AcceptedHosts(batches, accepted),
              batches |-> batches]

----------------------------------------------------------------------------
(* Pieces of syncProfile (main.go:1078-1156).                              *)

\* a faulty variant of FolderName (the name is not trimmed), which C9 must
\* reject
MutFolderName(folderData) == folderData.Group.Group

\* strings.TrimSpace(folderData.Group.Group), main.go:1106 and 1122
FolderName(folderData) == TrimSpace(folderData.Group.Group)

\* a faulty variant of Hostnames (the rules with an empty PK are kept), which
\* C13 must reject
MutHostnames(folderData) ==
    [i \in 1..Len(folderData.Rules) |-> folderData.Rules[i].PK]

\* main.go:1126-1131
Hostnames(folderData) ==
    LET pks == [i \in 1..Len(folderData.Rules) |-> folderData.Rules[i].PK]
    IN  SelectSeq(pks, LAMBDA h : h # <<>>)

NumSuccess(folders) == Cardinality({i \in 1..Len(folders) : folders[i].Success})

\* a faulty variant of ProfileSuccess (one folder is enough), which C5 must
\* reject
MutProfileSuccess(folders, n) == NumSuccess(folders) > 0

\* main.go:1154
ProfileSuccess(folders, n) == NumSuccess(folders) = n

----------------------------------------------------------------------------
(* Inputs: definitions, profiles and initial remotes.                      *)

H1 == <<1>>
H2 == <<2>>
H3 == <<3>>

FolderData(name, hosts) ==
    [Group |-> [Group |-> name, Action |-> [Do |-> 0, Status |-> 1]],
     Rules |-> [i \in 1..Len(hosts) |-> [PK |-> hosts[i]]]]

\* a name with trailing white space; two hostnames
DocA == FolderData(<<"a", " ">>, <<H1, H2>>)
\* shares H2 with DocA; one rule with an empty PK
DocB == FolderData(<<"b">>, <<H2, <<>>, H3>>)
\* the same folder name as DocA once trimmed; one hostname listed twice
DocA2 == FolderData(<<" ", "a">>, <<H3, H3>>)

Docs == {DocA, DocB, DocA2}

URLName(i) ==
    CASE i = 1 -> "u1" [] i = 2 -> "u2" [] i = 3 -> "u3" [] i = 4 -> "u4"
      [] OTHER -> "u5"

ProfileName(i) ==
    CASE i = 1 -> "p1" [] i = 2 -> "p2" [] i = 3 -> "p3" [] i = 4 -> "p4"
      [] i = 5 -> "p5" [] OTHER -> "p6"

RemEmpty == [groups |-> <<>>, rules |-> {}, nextPK |-> 1]

\* a folder that a definition names, and one that no definition names
RemA ==
    [groups |-> <<[Group |-> <<"a">>, PK |-> PKNumber(1), rules |-> {H1}],
                  [Group |-> <<"c">>, PK |-> PKString("2"), rules |-> {H3}]>>,
     rules |-> {},
     nextPK |-> 3]

\* two folders of the same trimmed name (what a failed delete followed by a
\* create leaves behind), and a rule in the root scope
RemDup ==
    [groups |-> <<[Group |-> <<"a">>, PK |-> PKNumber(1), rules |-> {H1}],
                  [Group |-> <<"a", " ">>, PK |-> PKNumber(2), rules |-> {}]>>,
     rules |-> {H2},
     nextPK |-> 3]

Remotes == {RemEmpty, RemA, RemDup}

Ops == {"get", "list", "delete", "rules", "create", "push"}

Tasks == 1..Len(profileIDs)

\* var data FolderData (main.go:840): the zero value
NoData == FolderData(<<>>, <<>>)

\* no call of pushRules, no call of retryRequest
NoPush == [called |-> FALSE]
NoRetry == [pc |-> "idle"]

\* no call of listExistingFolders on its own
NoListing == [called |-> FALSE, groups |-> <<>>]

\* the program has not been run before
NoPrev == [done |-> FALSE]

NoResult == [ProfileID |-> "", Folders |-> <<>>, Success |-> FALSE]

TypeOK ==
    /\ semaphore \in 0..Len(profileIDs)
    /\ wg \in 0..Len(profileIDs)
    /\ successCount \in 0..Len(profileIDs)
    /\ exitCode \in {-1, 0, 1}
    /\ cacheMutex.readers \subseteq Tasks
    /\ cacheMutex.writer \in 0..Len(profileIDs)
    /\ DOMAIN cache \subseteq Range(FolderURLs)

\* the state when main has launched one goroutine per profile (main.go:1283-1301)
InitWith(ids, urls, src, rems, fails) ==
    /\ profileIDs = ids
    /\ FolderURLs = urls
    /\ source = src
    /\ remote = rems
    /\ remote0 = rems
    /\ mayFail = fails
    /\ cache = EmptyMap
    /\ cacheMutex = [readers |-> {}, writer |-> 0]
    /\ semaphore = 0
    /\ wg = Len(ids)
    /\ allResults = <<>>
    /\ successCount = 0
    /\ exitCode = -1
    /\ pc = [t \in 1..Len(ids) |-> "queued"]
    /\ urlIdx = [t \in 1..Len(ids) |-> 1]
    /\ folderDataList = [t \in 1..Len(ids) |-> <<>>]
    /\ existingFolders = [t \in 1..Len(ids) |-> EmptyMap]
    /\ existingRules = [t \in 1..Len(ids) |-> {}]
    /\ idx = [t \in 1..Len(ids) |-> 0]
    /\ folderID = [t \in 1..Len(ids) |-> ""]
    /\ result = [t \in 1..Len(ids) |-> NoResult]
    /\ calls = [t \in 1..Len(ids) |-> <<>>]
    /\ data = [t \in 1..Len(ids) |-> NoData]
    /\ prev = NoPrev
    /\ logs = [t \in 1..Len(ids) |-> {}]

\* one profile, MaxURLs definitions, any request may fail
Init ==
    \E src \in {f \in [{URLName(i) : i \in 1..MaxURLs} -> Docs] : f["u1"] = DocA},
       rem \in Remotes :
        /\ InitWith(<<"p1">>, [i \in 1..MaxURLs |-> URLName(i)], src,
                    [p \in {"p1"} |-> rem], [p \in {"p1"} |-> Ops])
        /\ push = NoPush
        /\ retry = NoRetry
        /\ listing = NoListing

\* the profile whose requests can fail in the concurrency specification
Faulty == "p2"

\* the kinds of request of profile Faulty that can fail there
FaultyOps == {"list", "create", "push"}

\* MaxProfiles profiles and one definition; the API requests of profile Faulty
\* can fail, those of the other profiles cannot
InitConc ==
    /\ InitWith([i \in 1..MaxProfiles |-> ProfileName(i)], <<"u1">>,
                [u \in {"u1"} |-> DocA],
                [p \in {ProfileName(i) : i \in 1..MaxProfiles} |->
                   IF p = "p1" THEN RemA ELSE RemEmpty],
                [p \in {ProfileName(i) : i \in 1..MaxProfiles} |->
                   IF p = Faulty THEN FaultyOps ELSE {}])
    /\ push = NoPush
    /\ retry = NoRetry
    /\ listing = NoListing

----------------------------------------------------------------------------
(* The goroutine of one profile (main.go:1285-1300) and syncProfile.       *)

\* a faulty variant of RemoteOf (every goroutine works on the first profile,
\* as with a captured loop variable), which C4 must reject
MutRemoteOf(t) == profileIDs[1]

\* the profile whose remote state goroutine t reads and writes; the id is
\* passed to the goroutine by value (main.go:1285, 1300)
RemoteOf(t) == profileIDs[t]

Rem(t) == remote[RemoteOf(t)]

\* the results a request of kind op can have for goroutine t
Outcomes(t, op) == IF op \in mayFail[profileIDs[t]] THEN ApiOutcomes ELSE {TRUE}

\* one call made by syncProfile: i is the position of the definition it is
\* for (0 if none), ok its result, clean whether every request made inside
\* it succeeded, sent and acc the batches of a push and their acceptance
Call(op, i, id, name, ok, clean, sent, acc) ==
    [op |-> op, i |-> i, id |-> id, name |-> name, ok |-> ok, clean |-> clean,
     sent |-> sent, acc |-> acc]

Log(t, c) == [calls EXCEPT ![t] = Append(@, c)]

\* a message of log.Printf on an error path, written during the call that
\* goroutine t is making (the next entry of calls[t])
\* its subject is an id or a URL, a folder name or a batch number
Msg(t, text, id, name, batch) ==
    [text |-> text, id |-> id, name |-> name, batch |-> batch,
     call |-> Len(calls[t]) + 1]

Printf(t, msgs) == [logs EXCEPT ![t] = @ \cup msgs]

\* a faulty variant of SemaphoreHasRoom (one slot too many), which C1 must reject
MutSemaphoreHasRoom == semaphore <= MaxConcurrentProfiles

\* semaphore <- struct{}{} blocks while the channel is full (main.go:1289)
SemaphoreHasRoom == semaphore < MaxConcurrentProfiles

\* a faulty variant of ReleaseSlot (the slot is never given back), which C2
\* must reject
MutReleaseSlot(n) == n

\* <-semaphore (main.go:1290)
ReleaseSlot(n) == n - 1

\* where syncProfile goes once URL number i - 1 is dealt with (main.go:1084-1096)
AfterURL(list, i) ==
    IF i <= Len(FolderURLs) THEN "ghRLock"
    ELSE IF Len(list) = 0 THEN "collect" ELSE "list"

\* the first definition from position i on whose folder exists (main.go:1105-1110)
NextMatch(list, folders, i) ==
    LET js == {j \in i..Len(list) : FolderName(list[j]) \in DOMAIN folders}
    IN  IF js = {} THEN 0 ELSE CHOOSE j \in js : \A k \in js : j <= k

\* a faulty variant of AfterList (the error of the listing is ignored), which
\* C6 must reject
MutAfterList(ok, first) == IF first = 0 THEN "index" ELSE "delete"

\* after the first listing (main.go:1099-1105)
AfterList(ok, first) ==
    IF ~ok THEN "collect" ELSE IF first = 0 THEN "index" ELSE "delete"

\* a faulty variant of AfterDelete (syncProfile returns after a deleteFolder),
\* which C24 must reject
MutAfterDelete(next) == "collect"

\* after one deleteFolder (main.go:1105-1113)
AfterDelete(next) == IF next = 0 THEN "index" ELSE "delete"

\* a faulty variant of AfterIndex (the folders are deleted after the index is
\* built), which C8 must reject
MutAfterIndex(err, first) ==
    IF err THEN "collect" ELSE IF first # 0 THEN "delete" ELSE "create"

\* a faulty variant of AfterIndex (the error of getAllExistingRules is ignored),
\* which C33 must reject
MutIgnoreIndexErr(err, first) == "create"

\* after getAllExistingRules (main.go:1113-1121)
AfterIndex(err, first) == IF err THEN "collect" ELSE "create"

Acquire(t) ==
    /\ pc[t] = "queued"
    /\ SemaphoreHasRoom
    /\ semaphore' = semaphore + 1
    /\ result' = [result EXCEPT ![t] =
                    [ProfileID |-> profileIDs[t], Folders |-> <<>>, Success |-> FALSE]]
    /\ pc' = [pc EXCEPT ![t] = "ghRLock"]
    /\ UNCHANGED <<listing, logs, prev, push, retry, data, profileIDs, FolderURLs, source, remote, remote0, mayFail, cache,
                   cacheMutex, wg, allResults, successCount, exitCode, urlIdx,
                   folderDataList, existingFolders, existingRules, idx, folderID,
                   calls>>

(* ghGet (main.go:821-851), called through fetchFolderData (main.go:956).  *)

\* cacheMutex.RLock()
GhRLock(t) ==
    /\ pc[t] = "ghRLock"
    /\ cacheMutex.writer = 0
    /\ cacheMutex' = [cacheMutex EXCEPT !.readers = @ \cup {t}]
    /\ pc' = [pc EXCEPT ![t] = "ghRead"]
    /\ UNCHANGED <<listing, logs, prev, push, retry, data, profileIDs, FolderURLs, source, remote, remote0, mayFail, cache,
                   semaphore, wg, allResults, successCount, exitCode, urlIdx,
                   folderDataList, existingFolders, existingRules, idx, folderID,
                   result, calls>>

\* the cache lookup and cacheMutex.RUnlock() (main.go:824-828)
GhRead(t) ==
    LET url == FolderURLs[urlIdx[t]]
    IN  /\ pc[t] = "ghRead"
        /\ cacheMutex' = [cacheMutex EXCEPT !.readers = @ \ {t}]
        /\ IF url \in DOMAIN cache
           THEN LET list == Append(folderDataList[t], cache[url])
                IN  /\ folderDataList' = [folderDataList EXCEPT ![t] = list]
                    /\ urlIdx' = [urlIdx EXCEPT ![t] = @ + 1]
                    /\ pc' = [pc EXCEPT ![t] = AfterURL(list, urlIdx[t] + 1)]
           ELSE /\ pc' = [pc EXCEPT ![t] = "ghHttp"]
                /\ UNCHANGED <<folderDataList, urlIdx>>
        /\ UNCHANGED <<listing, logs, prev, push, retry, data, profileIDs, FolderURLs, source, remote, remote0, mayFail,
                       cache, semaphore, wg, allResults, successCount, exitCode,
                       existingFolders, existingRules, idx, folderID, result, calls>>

\* what ghClient.Get(url) can give goroutine t: the document, a transport
\* error, a status other than 200, or a body that does not decode
GhResponses(t) ==
    {[err |-> FALSE, status |-> 200, decodes |-> TRUE]}
    \cup (IF "get" \in mayFail[profileIDs[t]]
          THEN {[err |-> TRUE, status |-> 0, decodes |-> FALSE]} ELSE {})
    \cup (IF "status" \in mayFail[profileIDs[t]]
          THEN {[err |-> FALSE, status |-> c, decodes |-> TRUE] : c \in {204, 404}}
          ELSE {})
    \cup (IF "decode" \in mayFail[profileIDs[t]]
          THEN {[err |-> FALSE, status |-> 200, decodes |-> FALSE]} ELSE {})

\* a faulty variant of GhOk (any status below 400 is accepted, as retryRequest
\* does), which C25 must reject
MutGhOk(r) == ~r.err /\ r.status < 400 /\ r.decodes

\* ghGet goes on to store the document (main.go:831, 836, 841)
GhOk(r) == ~r.err /\ r.status = 200 /\ r.decodes

\* ghClient.Get and the decoding of the body (main.go:830-843); on an error
\* syncProfile logs it and goes on with the next URL (main.go:1086-1089)
GhHttp(t) ==
    LET url == FolderURLs[urlIdx[t]]
    IN  /\ pc[t] = "ghHttp"
        /\ \E r \in GhResponses(t) :
            LET ok == GhOk(r)
            IN
            /\ calls' = Log(t, Call("get", urlIdx[t], url, <<>>, ok, ok, <<>>, <<>>)
                              @@ [resp |-> r])
            /\ IF ok
               THEN /\ data' = [data EXCEPT ![t] = source[url]]
                    /\ pc' = [pc EXCEPT ![t] = "ghLock"]
                    /\ UNCHANGED urlIdx
               ELSE /\ urlIdx' = [urlIdx EXCEPT ![t] = @ + 1]
                    /\ pc' = [pc EXCEPT ![t] =
                                AfterURL(folderDataList[t], urlIdx[t] + 1)]
                    /\ UNCHANGED data
            /\ logs' = Printf(t,
                    (IF ok THEN {}
                     ELSE {Msg(t, "Failed to fetch folder data from", url, <<>>, 0)})
                    \cup
                    (IF ~ok /\ AfterURL(folderDataList[t], urlIdx[t] + 1) = "collect"
                     THEN {Msg(t, "No valid folder data found", "", <<>>, 0)} ELSE {}))
        /\ UNCHANGED <<listing, prev, push, retry, profileIDs, FolderURLs, source, remote, remote0, mayFail,
                       cache, cacheMutex, semaphore, wg, allResults, successCount,
                       exitCode, folderDataList, existingFolders, existingRules,
                       idx, folderID, result>>

\* a faulty variant of CanLock (the readers are not waited for), which C26
\* must reject
MutCanLock(m) == m.writer = 0

\* sync.RWMutex: Lock() returns when no writer and no reader holds the mutex
CanLock(m) == m.writer = 0 /\ m.readers = {}

\* cacheMutex.Lock() (main.go:846)
GhLock(t) ==
    /\ pc[t] = "ghLock"
    /\ CanLock(cacheMutex)
    /\ cacheMutex' = [cacheMutex EXCEPT !.writer = t]
    /\ pc' = [pc EXCEPT ![t] = "ghWrite"]
    /\ UNCHANGED <<listing, logs, prev, push, retry, data, profileIDs, FolderURLs, source, remote, remote0, mayFail, cache,
                   semaphore, wg, allResults, successCount, exitCode, urlIdx,
                   folderDataList, existingFolders, existingRules, idx, folderID,
                   result, calls>>

\* cache[url] = data; cacheMutex.Unlock(); return data (main.go:847-850)
GhWrite(t) ==
    LET url == FolderURLs[urlIdx[t]]
        list == Append(folderDataList[t], data[t])
    IN  /\ pc[t] = "ghWrite"
        /\ cache' = MapSet(cache, url, data[t])
        /\ data' = [data EXCEPT ![t] = NoData]
        /\ cacheMutex' = [cacheMutex EXCEPT !.writer = 0]
        /\ folderDataList' = [folderDataList EXCEPT ![t] = list]
        /\ urlIdx' = [urlIdx EXCEPT ![t] = @ + 1]
        /\ pc' = [pc EXCEPT ![t] = AfterURL(list, urlIdx[t] + 1)]
        /\ UNCHANGED <<listing, logs, prev, push, retry, profileIDs, FolderURLs, source, remote, remote0, mayFail,
                       semaphore, wg, allResults, successCount, exitCode,
                       existingFolders, existingRules, idx, folderID, result, calls>>

\* existingFolders, err := listExistingFolders(profileID) (main.go:1099-1103)
ListFolders(t) ==
    /\ pc[t] = "list"
    /\ \E ok \in Outcomes(t, "list"), order \in Perms(Len(Rem(t).groups)) :
        LET folders == listExistingFolders(RemoteGroups(Rem(t), order))
            first == NextMatch(folderDataList[t], folders, 1)
            next == AfterList(ok, first)
        IN  /\ calls' = Log(t, Call("list", 0, "", <<>>, ok, ok, <<>>, <<>>))
            /\ logs' = Printf(t, IF ok THEN {}
                                 ELSE {Msg(t, "Failed to list existing folders", "", <<>>, 0)})
            /\ pc' = [pc EXCEPT ![t] = next]
            /\ IF next = "collect"
               THEN UNCHANGED <<existingFolders, idx>>
               ELSE /\ existingFolders' = [existingFolders EXCEPT ![t] = folders]
                    /\ idx' = [idx EXCEPT ![t] = first]
    /\ UNCHANGED <<listing, prev, push, retry, data, profileIDs, FolderURLs, source, remote, remote0, mayFail, cache,
                   cacheMutex, semaphore, wg, allResults, successCount, exitCode,
                   urlIdx, folderDataList, existingRules, folderID, result>>

\* deleteFolder(profileID, name, folderID) for the next definition whose folder
\* exists (main.go:1105-1110, 961-971); its result is not used
DeleteFolder(t) ==
    /\ pc[t] = "delete"
    /\ idx[t] \in 1..Len(folderDataList[t])
    /\ FolderName(folderDataList[t][idx[t]]) \in DOMAIN existingFolders[t]
    /\ LET name == FolderName(folderDataList[t][idx[t]])
           id == existingFolders[t][name]
           next == NextMatch(folderDataList[t], existingFolders[t], idx[t] + 1)
       IN  /\ \E ok \in IF id \in RemoteIds(Rem(t))
                       THEN Outcomes(t, "delete") ELSE {FALSE} :
                /\ remote' = IF ok
                             THEN [remote EXCEPT ![RemoteOf(t)] = RemoteDelete(@, id)]
                             ELSE remote
                /\ calls' = Log(t, Call("delete", idx[t], id, name, ok, ok, <<>>, <<>>))
                /\ logs' = Printf(t, IF ok THEN {}
                                     ELSE {Msg(t, "Failed to delete folder", id, name, 0)})
           /\ idx' = [idx EXCEPT ![t] = next]
           /\ pc' = [pc EXCEPT ![t] = AfterDelete(next)]
    /\ UNCHANGED <<listing, prev, push, retry, data, profileIDs, FolderURLs, source, remote0, mayFail, cache,
                   cacheMutex, semaphore, wg, allResults, successCount, exitCode,
                   urlIdx, folderDataList, existingFolders, existingRules,
                   folderID, result>>

\* what the request for the rules of the root scope can give (main.go:903-909):
\* rules, an error after the retries, or a response whose body does not decode
RootOutcomes(t) ==
    {"ok"} \cup (IF "rules" \in mayFail[profileIDs[t]] THEN {"error"} ELSE {})
           \cup (IF "decode" \in mayFail[profileIDs[t]] THEN {"undecodable"} ELSE {})

\* the messages of getAllExistingRules on its error paths (main.go:905, 930,
\* 936) and of syncProfile when it returns an error (main.go:1115)
IndexMessages(t, root, listOk, failIds) ==
    (IF root = "error"
     THEN {Msg(t, "Warning: Failed to get root folder rules", "", <<>>, 0)} ELSE {})
    \cup
    (IF ~listOk THEN {Msg(t, "Failed to get existing rules", "", <<>>, 0)}
     ELSE {Msg(t, "Warning: Failed to get rules from folder", id, <<>>, 0) : id \in failIds})

\* existingRules, err := getAllExistingRules(profileID) (main.go:1113-1117)
GetAllExistingRules(t) ==
    /\ pc[t] = "index"
    /\ \E root \in RootOutcomes(t), listOk \in Outcomes(t, "list"),
          order \in Perms(Len(Rem(t).groups)) :
        LET rootOk == root = "ok"
            folders == listExistingFolders(RemoteGroups(Rem(t), order))
            ids == {folders[n] : n \in DOMAIN folders}
        IN  \E failIds \in IF listOk /\ "rules" \in mayFail[profileIDs[t]]
                           THEN SUBSET ids ELSE {{}} :
            LET r == getAllExistingRules(Rem(t), rootOk, listOk, order, failIds)
                first == NextMatch(folderDataList[t], existingFolders[t], 1)
                next == AfterIndex(r.err, first)
            IN  /\ calls' = Log(t, Call("index", 0, "", <<>>, ~r.err,
                                    rootOk /\ listOk /\ failIds = {}, <<>>, <<>>)
                                  @@ [root |-> root, listOk |-> listOk,
                                      failed |-> failIds])
                /\ logs' = Printf(t, IndexMessages(t, root, listOk, failIds))
                /\ pc' = [pc EXCEPT ![t] = next]
                /\ IF next = "collect"
                   THEN UNCHANGED <<existingRules, idx>>
                   ELSE /\ existingRules' = [existingRules EXCEPT ![t] = r.allRules]
                        /\ idx' = [idx EXCEPT ![t] = IF next = "create" THEN 1 ELSE first]
    /\ UNCHANGED <<listing, prev, push, retry, data, profileIDs, FolderURLs, source, remote, remote0, mayFail, cache,
                   cacheMutex, semaphore, wg, allResults, successCount, exitCode,
                   urlIdx, folderDataList, existingFolders, folderID, result>>

\* a faulty variant of AfterFolder (the loop ends at the first folder that
\* fails), which C7 must reject
MutAfterFolder(t, folders) ==
    IF idx[t] = Len(folderDataList[t]) \/ ~folders[Len(folders)].Success
    THEN /\ result' = [result EXCEPT ![t] =
                         [@ EXCEPT !.Folders = folders,
                                   !.Success = ProfileSuccess(folders,
                                                   Len(folderDataList[t]))]]
         /\ pc' = [pc EXCEPT ![t] = "collect"]
         /\ UNCHANGED idx
    ELSE /\ result' = [result EXCEPT ![t] = [@ EXCEPT !.Folders = folders]]
         /\ pc' = [pc EXCEPT ![t] = "create"]
         /\ idx' = [idx EXCEPT ![t] = @ + 1]

\* a faulty variant of AfterFolder (the FolderResult of a folder that failed is
\* not appended), which C31 must reject
MutDropFailed(t, folders) ==
    LET kept == IF folders[Len(folders)].Success THEN folders
                ELSE SubSeq(folders, 1, Len(folders) - 1)
    IN  IF idx[t] = Len(folderDataList[t])
        THEN /\ result' = [result EXCEPT ![t] =
                             [@ EXCEPT !.Folders = kept,
                                       !.Success = ProfileSuccess(kept,
                                                       Len(folderDataList[t]))]]
             /\ pc' = [pc EXCEPT ![t] = "collect"]
             /\ UNCHANGED idx
        ELSE /\ result' = [result EXCEPT ![t] = [@ EXCEPT !.Folders = kept]]
             /\ pc' = [pc EXCEPT ![t] = "create"]
             /\ idx' = [idx EXCEPT ![t] = @ + 1]

\* the end of one iteration of the per-folder loop, and of syncProfile after
\* the last one (main.go:1121, 1138-1139, 1146-1155)
AfterFolder(t, folders) ==
    IF idx[t] = Len(folderDataList[t])
    THEN /\ result' = [result EXCEPT ![t] =
                         [@ EXCEPT !.Folders = folders,
                                   !.Success = ProfileSuccess(folders,
                                                   Len(folderDataList[t]))]]
         /\ pc' = [pc EXCEPT ![t] = "collect"]
         /\ UNCHANGED idx
    ELSE /\ result' = [result EXCEPT ![t] = [@ EXCEPT !.Folders = folders]]
         /\ pc' = [pc EXCEPT ![t] = "create"]
         /\ idx' = [idx EXCEPT ![t] = @ + 1]

\* a faulty variant of AfterCreateOk (the rules are pushed at once), which C29
\* must reject
MutAfterCreateOk == "push"

\* where createFolder stands once it has found the id (main.go:998-999)
AfterCreateOk == "settle"

\* createFolder up to the lookup of the id, and what syncProfile does when it
\* returns an error (main.go:1133-1140, 974-998)
CreateFolder(t) ==
    /\ pc[t] = "create"
    /\ idx[t] \in 1..Len(folderDataList[t])
    /\ LET name == FolderName(folderDataList[t][idx[t]])
       IN  \E postOk \in Outcomes(t, "create"), listOk \in Outcomes(t, "list") :
            LET rem == IF postOk THEN RemoteCreate(Rem(t), name) ELSE Rem(t)
            IN  \E order \in Perms(Len(rem.groups)) :
                LET folders == listExistingFolders(RemoteGroups(rem, order))
                    found == postOk /\ listOk /\ TrimSpace(name) \in DOMAIN folders
                    id == IF found THEN folders[TrimSpace(name)] ELSE ""
                IN  /\ remote' = [remote EXCEPT ![RemoteOf(t)] = rem]
                    /\ calls' = Log(t, Call("create", idx[t], id, name, found,
                                            postOk /\ (postOk => listOk), <<>>, <<>>)
                                      @@ [slept |-> 0])
                    /\ logs' = Printf(t, IF found THEN {}
                                         ELSE {Msg(t, "Failed to create folder", "", name, 0)})
                    /\ IF found
                       THEN /\ pc' = [pc EXCEPT ![t] = AfterCreateOk]
                            /\ UNCHANGED <<result, idx>>
                       ELSE AfterFolder(t, Append(result[t].Folders,
                                   [Name |-> name, Rules |-> 0, Duplicates |-> 0,
                                    Success |-> FALSE]))
    /\ UNCHANGED <<listing, prev, push, retry, data, profileIDs, FolderURLs, source, remote0, mayFail, cache,
                   cacheMutex, semaphore, wg, allResults, successCount, exitCode,
                   urlIdx, folderDataList, existingFolders, existingRules, folderID>>

\* time.Sleep(FolderCreationDelay); return folderID, nil (main.go:999-1000,
\* 1135)
Settle(t) ==
    /\ pc[t] = "settle"
    /\ calls' = [calls EXCEPT ![t][Len(calls[t])].slept = FolderCreationDelay]
    /\ folderID' = [folderID EXCEPT ![t] = calls[t][Len(calls[t])].id]
    /\ pc' = [pc EXCEPT ![t] = "push"]
    /\ UNCHANGED <<listing, logs, prev, push, retry, data, profileIDs, FolderURLs,
                   source, remote, remote0, mayFail, cache, cacheMutex, semaphore,
                   wg, allResults, successCount, exitCode, urlIdx, folderDataList,
                   existingFolders, existingRules, idx, result>>

\* a faulty variant of UpdateExistingRules (one map for all the profiles: the
\* hostnames accepted for one profile get into the index of the others), which
\* C34 must reject
MutSharedRules(t, rules) ==
    [u \in DOMAIN existingRules |->
        IF u = t THEN rules ELSE existingRules[u] \cup rules]

\* existingRules[hostname] = true (main.go:1062-1065) on the map that this call
\* of syncProfile got from getAllExistingRules (main.go:1113, 1142)
UpdateExistingRules(t, rules) == [existingRules EXCEPT ![t] = rules]

\* rulesAdded, duplicates, ok := pushRules(...) and the bookkeeping after it
\* (main.go:1142-1150)
PushRules(t) ==
    /\ pc[t] = "push"
    /\ LET folderData == folderDataList[t][idx[t]]
           name == FolderName(folderData)
           hostnames == Hostnames(folderData)
           n == TotalBatches(Len(FilterHostnames(hostnames, existingRules[t])))
       IN  \E accepted \in [1..n -> Outcomes(t, "push")] :
            LET r == pushRules(hostnames, existingRules[t], accepted)
            IN  /\ remote' = [remote EXCEPT ![RemoteOf(t)] =
                        RemoteAddRules(@, folderID[t], AcceptedHosts(r.batches, accepted))]
                /\ existingRules' = UpdateExistingRules(t, r.existingRules)
                /\ calls' = Log(t, Call("push", idx[t], folderID[t], name, r.ok,
                                        \A b \in 1..n : accepted[b], r.batches, accepted))
                /\ logs' = Printf(t,
                        {Msg(t, "Failed to push batch", "", name, b) :
                            b \in {c \in 1..n : ~accepted[c]}}
                        \cup (IF r.ok THEN {}
                              ELSE {Msg(t, "only some batches succeeded", "", name, 0)}))
                /\ AfterFolder(t, Append(result[t].Folders,
                        [Name |-> name, Rules |-> r.rulesAdded,
                         Duplicates |-> r.duplicates, Success |-> r.ok]))
    /\ UNCHANGED <<listing, prev, push, retry, data, profileIDs, FolderURLs, source, remote0, mayFail, cache,
                   cacheMutex, semaphore, wg, allResults, successCount, exitCode,
                   urlIdx, folderDataList, existingFolders, folderID>>

\* a faulty variant of AppendResult (the result takes the place of the last one
\* appended, as when two appends are not serialised), which C30 must reject
MutAppendResult(results, r) ==
    IF results = <<>> THEN <<r>> ELSE [results EXCEPT ![Len(results)] = r]

\* allResults = append(allResults, result) under resultsMu (main.go:1293-1295)
AppendResult(results, r) == Append(results, r)

\* resultsMu.Lock(); allResults = append(allResults, result); resultsMu.Unlock()
\* (main.go:1292-1295)
Collect(t) ==
    /\ pc[t] = "collect"
    /\ allResults' = AppendResult(allResults, result[t])
    /\ pc' = [pc EXCEPT ![t] = "count"]
    /\ UNCHANGED <<listing, logs, prev, push, retry, data, profileIDs, FolderURLs, source, remote, remote0, mayFail, cache,
                   cacheMutex, semaphore, wg, successCount, exitCode, urlIdx,
                   folderDataList, existingFolders, existingRules, idx, folderID,
                   result, calls>>

\* if result.Success { atomic.AddInt32(&successCount, 1) } (main.go:1297-1299)
Count(t) ==
    /\ pc[t] = "count"
    /\ successCount' = IF result[t].Success THEN successCount + 1 ELSE successCount
    /\ pc' = [pc EXCEPT ![t] = "release"]
    /\ UNCHANGED <<listing, logs, prev, push, retry, data, profileIDs, FolderURLs, source, remote, remote0, mayFail, cache,
                   cacheMutex, semaphore, wg, allResults, exitCode, urlIdx,
                   folderDataList, existingFolders, existingRules, idx, folderID,
                   result, calls>>

\* the deferred calls: <-semaphore, then wg.Done() (main.go:1286, 1290)
Release(t) ==
    /\ pc[t] = "release"
    /\ semaphore' = ReleaseSlot(semaphore)
    /\ wg' = wg - 1
    /\ pc' = [pc EXCEPT ![t] = "done"]
    /\ UNCHANGED <<listing, logs, prev, push, retry, data, profileIDs, FolderURLs, source, remote, remote0, mayFail, cache,
                   cacheMutex, allResults, successCount, exitCode, urlIdx,
                   folderDataList, existingFolders, existingRules, idx, folderID,
                   result, calls>>

\* a faulty variant of ExitStatus (one success is enough), which C3 must reject
MutExitStatus(finalSuccessCount, n) == IF finalSuccessCount = 0 THEN 1 ELSE 0

\* main.go:1308-1313
ExitStatus(finalSuccessCount, n) == IF finalSuccessCount # n THEN 1 ELSE 0

\* wg.Wait() returns; main reads the counter and exits (main.go:1304-1313)
MainExit ==
    /\ exitCode = -1
    /\ wg = 0
    /\ exitCode' = ExitStatus(successCount, Len(profileIDs))
    /\ UNCHANGED <<listing, logs, prev, push, retry, data, profileIDs, FolderURLs, source, remote, remote0, mayFail, cache,
                   cacheMutex, semaphore, wg, allResults, successCount, pc, urlIdx,
                   folderDataList, existingFolders, existingRules, idx, folderID,
                   result, calls>>

Next ==
    \/ \E t \in Tasks : Acquire(t)
    \/ \E t \in Tasks : GhRLock(t)
    \/ \E t \in Tasks : GhRead(t)
    \/ \E t \in Tasks : GhHttp(t)
    \/ \E t \in Tasks : GhLock(t)
    \/ \E t \in Tasks : GhWrite(t)
    \/ \E t \in Tasks : ListFolders(t)
    \/ \E t \in Tasks : DeleteFolder(t)
    \/ \E t \in Tasks : GetAllExistingRules(t)
    \/ \E t \in Tasks : CreateFolder(t)
    \/ \E t \in Tasks : Settle(t)
    \/ \E t \in Tasks : PushRules(t)
    \/ \E t \in Tasks : Collect(t)
    \/ \E t \in Tasks : Count(t)
    \/ \E t \in Tasks : Release(t)
    \/ MainExit

\* several profiles, the requests of one of them may fail
SpecConc == InitConc /\ [][Next]_vars

----------------------------------------------------------------------------
(* The definition cache under concurrency (main.go:821-851), with a server  *)
(* of the definitions whose content can change during the run and whose     *)
(* GET can fail.                                                            *)

CacheProfiles == {ProfileName(i) : i \in 1..MaxCacheProfiles}

InitCache ==
    /\ InitWith([i \in 1..MaxCacheProfiles |-> ProfileName(i)], <<"u1">>,
                [u \in {"u1"} |-> DocA],
                [p \in CacheProfiles |-> IF p = "p1" THEN RemA ELSE RemEmpty],
                [p \in CacheProfiles |-> {"get"}])
    /\ push = NoPush
    /\ retry = NoRetry
    /\ listing = NoListing

\* the file behind url is updated on the server
UpstreamChange(url) ==
    /\ source[url] = DocA
    /\ source' = [source EXCEPT ![url] = DocB]
    /\ UNCHANGED <<listing, logs, prev, push, retry, data, profileIDs, FolderURLs, remote, remote0,
                   mayFail, cache, cacheMutex, semaphore, wg, allResults,
                   successCount, exitCode, pc, urlIdx, folderDataList,
                   existingFolders, existingRules, idx, folderID, result, calls>>

NextCache ==
    \/ Next
    \/ \E url \in Range(FolderURLs) : UpstreamChange(url)

SpecCache == InitCache /\ [][NextCache]_vars

----------------------------------------------------------------------------
(* One profile and one definition; any request may fail, and the response   *)
(* to the request for the rules of the root scope may have a body that does *)
(* not decode (main.go:909).                                                *)

InitLog ==
    \E rem \in Remotes :
        /\ InitWith(<<"p1">>, <<"u1">>, [u \in {"u1"} |-> DocA],
                    [p \in {"p1"} |-> rem], [p \in {"p1"} |-> Ops \cup {"decode"}])
        /\ push = NoPush
        /\ retry = NoRetry
        /\ listing = NoListing

SpecLog == InitLog /\ [][Next]_vars

----------------------------------------------------------------------------
(* The fetch of the definitions (main.go:1082-1096, 821-851): two profiles  *)
(* and MaxURLs definitions; every GET of a definition by the first profile  *)
(* can fail in each of the ways ghGet tells apart; the requests to the API  *)
(* get their response, whose body may not decode.                           *)

FetchProfiles == {"p1", "p2"}

InitFetch ==
    /\ InitWith(<<"p1", "p2">>, [i \in 1..MaxURLs |-> URLName(i)],
                [u \in {URLName(i) : i \in 1..MaxURLs} |->
                    IF u = "u1" THEN DocA ELSE DocB],
                [p \in FetchProfiles |-> IF p = "p1" THEN RemA ELSE RemEmpty],
                [p \in FetchProfiles |->
                    IF p = "p1" THEN {"get", "status", "decode"} ELSE {}])
    /\ push = NoPush
    /\ retry = NoRetry
    /\ listing = NoListing

SpecFetch == InitFetch /\ [][Next]_vars

----------------------------------------------------------------------------
(* The program run twice in succession on one profile (main.go:1234-1313):  *)
(* the second process starts when the first has exited, with the same       *)
(* definitions and the remote as the first run left it.                     *)

\* a hostname stored in the root scope and in a folder that no definition names
RemTwin ==
    [groups |-> <<[Group |-> <<"c">>, PK |-> PKNumber(1), rules |-> {H3}]>>,
     rules |-> {H3},
     nextPK |-> 2]

\* the kinds of request that can fail in the two runs
TwiceOps == {"push"}

InitTwice ==
    \E src \in {f \in [{URLName(i) : i \in 1..MaxURLs} -> Docs] : f["u1"] = DocA},
       rem \in Remotes \cup {RemTwin} :
        /\ InitWith(<<"p1">>, [i \in 1..MaxURLs |-> URLName(i)], src,
                    [p \in {"p1"} |-> rem], [p \in {"p1"} |-> TwiceOps])
        /\ push = NoPush
        /\ retry = NoRetry
        /\ listing = NoListing

\* the first process has exited; the program is started again
Rerun ==
    /\ exitCode # -1
    /\ ~prev.done
    /\ prev' = [done |-> TRUE, calls |-> calls, remote0 |-> remote0,
                allResults |-> allResults, exitCode |-> exitCode]
    /\ remote0' = remote
    /\ cache' = EmptyMap
    /\ cacheMutex' = [readers |-> {}, writer |-> 0]
    /\ semaphore' = 0
    /\ wg' = Len(profileIDs)
    /\ allResults' = <<>>
    /\ successCount' = 0
    /\ exitCode' = -1
    /\ pc' = [t \in Tasks |-> "queued"]
    /\ urlIdx' = [t \in Tasks |-> 1]
    /\ folderDataList' = [t \in Tasks |-> <<>>]
    /\ existingFolders' = [t \in Tasks |-> EmptyMap]
    /\ existingRules' = [t \in Tasks |-> {}]
    /\ idx' = [t \in Tasks |-> 0]
    /\ folderID' = [t \in Tasks |-> ""]
    /\ result' = [t \in Tasks |-> NoResult]
    /\ calls' = [t \in Tasks |-> <<>>]
    /\ data' = [t \in Tasks |-> NoData]
    /\ logs' = [t \in Tasks |-> {}]
    /\ UNCHANGED <<listing, push, retry, profileIDs, FolderURLs, source, remote, mayFail>>

NextTwice ==
    \/ Next
    \/ Rerun

SpecTwice == InitTwice /\ [][NextTwice]_vars

----------------------------------------------------------------------------
(* pushRules as a function of its arguments (main.go:1004-1075): the        *)
(* hostnames, the index of existing rules, and for each batch whether       *)
(* apiPostForm accepts it.                                                  *)

H4 == <<4>>

\* the hostnames 1 .. n
SeqHosts(n) == [i \in 1..n |-> <<i>>]

\* every list of up to 3 hostnames, repetitions included
ShortLists == UNION {[1..n -> {H1, H2, H3, H4}] : n \in 0..3}

\* lists around the multiples of BatchSize
LongLists ==
    {SeqHosts(k * BatchSize + d) : k \in 1..(MaxBatches - 1), d \in {-1, 0, 1}}

\* the indexes tried with list h
IndexesFor(h) == IF Len(h) <= 3 THEN SUBSET {H1, H2, H3} ELSE {{}, {H1, H3}}

PushTrials ==
    {[called |-> FALSE, hostnames |-> h, existing |-> ex, accepted |-> acc] :
        <<h, ex, acc>> \in
            UNION {UNION {{<<h0, ex0, acc0>> : acc0 \in
                        [1..TotalBatches(Len(FilterHostnames(h0, ex0))) -> BOOLEAN]} :
                      ex0 \in IndexesFor(h0)} :
                   h0 \in ShortLists \cup LongLists}}

\* no pipeline; one call of pushRules is about to be made
InitPush ==
    /\ InitWith(<<>>, <<>>, EmptyMap, EmptyMap, EmptyMap)
    /\ push \in PushTrials
    /\ retry = NoRetry
    /\ listing = NoListing

CallPushRules ==
    /\ ~push.called
    /\ push' = [called |-> TRUE, hostnames |-> push.hostnames,
                existing |-> push.existing, accepted |-> push.accepted,
                ret |-> pushRules(push.hostnames, push.existing, push.accepted)]
    /\ UNCHANGED <<pipeVars, retry, listing>>

NextPush == CallPushRules

SpecPush == InitPush /\ [][NextPush]_vars

----------------------------------------------------------------------------
(* retryRequest step by step (main.go:722-748).  requestFunc returns a      *)
(* transport error and no response, or a response with a status.            *)

Statuses == {200, 204, 301, 399, 400, 404, 429, 500, 503}

Responses ==
    {[err |-> TRUE, status |-> 0]} \cup {[err |-> FALSE, status |-> c] : c \in Statuses}

\* a faulty variant of AttemptOk (the status is not looked at), which C17 must
\* reject
MutAttemptOk(r) == ~r.err

\* err == nil && resp.StatusCode < 400 (main.go:727)
AttemptOk(r) == ~r.err /\ r.status < 400

NoErr == [kind |-> "nil", status |-> 0]

\* lastErr after a failed attempt (main.go:731-736)
LastErr(r) ==
    IF ~r.err /\ r.status >= 400
    THEN [kind |-> "HTTP", status |-> r.status]
    ELSE [kind |-> "transport", status |-> 0]

\* no pipeline; retryRequest has just been called
InitRetry ==
    /\ InitWith(<<>>, <<>>, EmptyMap, EmptyMap, EmptyMap)
    /\ push = NoPush
    /\ listing = NoListing
    /\ retry = [pc |-> "request", attempt |-> 0, log |-> <<>>, waits |-> <<>>,
                lastErr |-> NoErr, resp |-> <<>>, err |-> NoErr]

\* one turn of the loop up to the sleep: resp, err := requestFunc() and the
\* tests after it (main.go:725-739)
RetryAttempt ==
    /\ retry.pc = "request"
    /\ retry.attempt < MaxRetries
    /\ \E r \in Responses :
        retry' =
            IF AttemptOk(r)
            THEN [retry EXCEPT !.pc = "returned", !.log = Append(@, r),
                               !.resp = <<r>>, !.err = NoErr]
            ELSE IF retry.attempt = MaxRetries - 1
            THEN [retry EXCEPT !.pc = "returned", !.log = Append(@, r),
                               !.lastErr = LastErr(r), !.resp = <<>>,
                               !.err = LastErr(r)]
            ELSE [retry EXCEPT !.pc = "sleep", !.log = Append(@, r),
                               !.lastErr = LastErr(r)]
    /\ UNCHANGED <<pipeVars, push, listing>>

\* time.Sleep(waitTime) and attempt++ (main.go:742-744)
RetrySleep ==
    /\ retry.pc = "sleep"
    /\ retry' = [retry EXCEPT !.pc = "request",
                              !.waits = Append(@, WaitTime(retry.attempt)),
                              !.attempt = @ + 1]
    /\ UNCHANGED <<pipeVars, push, listing>>

NextRetry == RetryAttempt \/ RetrySleep

SpecRetry == InitRetry /\ [][NextRetry]_vars

----------------------------------------------------------------------------
(* listExistingFolders as a function of the response to GET /groups         *)
(* (main.go:881-894): every list of up to MaxGroups groups whose name is    *)
(* empty, white space, or a name with or without white space around it, and *)
(* whose PK is null, a string (possibly empty) or a number.                 *)

GroupNames == {<<>>, <<" ">>, <<"a">>, <<"a", " ">>, <<"b">>}

GroupPKs == {PKNil, PKString(""), PKString("x"), PKNumber(1), PKNumber(2)}

APIGroups == {[Group |-> n, PK |-> k] : n \in GroupNames, k \in GroupPKs}

GroupsResponses == UNION {[1..n -> APIGroups] : n \in 0..MaxGroups}

\* no pipeline; the response to the listing has been decoded
InitList ==
    /\ InitWith(<<>>, <<>>, EmptyMap, EmptyMap, EmptyMap)
    /\ push = NoPush
    /\ retry = NoRetry
    /\ listing \in {[called |-> FALSE, groups |-> g] : g \in GroupsResponses}

CallListExistingFolders ==
    /\ ~listing.called
    /\ listing' = [called |-> TRUE, groups |-> listing.groups,
                   ret |-> listExistingFolders(listing.groups)]
    /\ UNCHANGED <<pipeVars, push, retry>>

NextList == CallListExistingFolders

SpecList == InitList /\ [][NextList]_vars

\* one profile, any request may fail
Spec == Init /\ [][Next]_vars

----------------------------------------------------------------------------
(* Vocabulary of the properties.                                           *)

\* goroutine t holds a slot of the semaphore
Running(t) == pc[t] \notin {"queued", "done"}

\* syncProfile has returned in goroutine t
Finished(t) == pc[t] \in {"collect", "count", "release", "done"}

CallsOf(t, op) == SelectSeq(calls[t], LAMBDA c : c.op = op)

HasCall(t, op) == \E k \in 1..Len(calls[t]) : calls[t][k].op = op

\* the first listing of the existing folders succeeded / failed
ListedOk(t) == Len(CallsOf(t, "list")) > 0 /\ CallsOf(t, "list")[1].ok
ListFailed(t) == Len(CallsOf(t, "list")) > 0 /\ ~CallsOf(t, "list")[1].ok

\* the index of existing rules was built / could not be built
IndexedOk(t) == Len(CallsOf(t, "index")) > 0 /\ CallsOf(t, "index")[1].ok
IndexFailed(t) == Len(CallsOf(t, "index")) > 0 /\ ~CallsOf(t, "index")[1].ok

\* every request goroutine t has made so far succeeded
AllRequestsOk(t) == \A k \in 1..Len(calls[t]) : calls[t][k].ok /\ calls[t][k].clean

----------------------------------------------------------------------------
(* C1: at any time at most MaxConcurrentProfiles goroutines are between     *)
(* acquiring and releasing a semaphore slot, and the semaphore counts them. *)

C1_BoundedConcurrency ==
    /\ Cardinality({t \in Tasks : Running(t)}) <= MaxConcurrentProfiles
    /\ semaphore = Cardinality({t \in Tasks : Running(t)})

\* three pipelines run while a fourth profile waits for a slot
C1_Witness ==
    /\ Cardinality({t \in Tasks : Running(t)}) = MaxConcurrentProfiles
    /\ \E t \in Tasks : pc[t] = "queued"
    /\ \E t \in Tasks : pc[t] \in {"list", "create", "push"}

----------------------------------------------------------------------------
(* C2: every pipeline gets a slot, runs to its end and gives the slot back, *)
(* also when it fails, and the run terminates with every profile attempted. *)
(* Every request returns in this model (each step has an outcome), so the   *)
(* claim is that no goroutine is ever stuck and that every step makes       *)
(* progress towards the end: a goroutine that is not done can take a step,  *)
(* or waits for the semaphore or the cache mutex while one that holds it    *)
(* can take a step; main can exit once all are done; each step raises a     *)
(* bounded measure.  With the scheduler running every goroutine that can    *)
(* run, this is termination.                                               *)

Rank(t) ==
    CASE pc[t] = "queued" -> 0
      [] pc[t] = "ghRLock" -> 1000 + 10 * urlIdx[t]
      [] pc[t] = "ghRead" -> 1001 + 10 * urlIdx[t]
      [] pc[t] = "ghHttp" -> 1002 + 10 * urlIdx[t]
      [] pc[t] = "ghLock" -> 1003 + 10 * urlIdx[t]
      [] pc[t] = "ghWrite" -> 1004 + 10 * urlIdx[t]
      [] pc[t] = "list" -> 2000
      [] pc[t] = "delete" -> 3000 + idx[t]
      [] pc[t] = "index" -> 4000
      [] pc[t] = "create" -> 5000 + 3 * idx[t]
      [] pc[t] = "settle" -> 5001 + 3 * idx[t]
      [] pc[t] = "push" -> 5002 + 3 * idx[t]
      [] pc[t] = "collect" -> 6000
      [] pc[t] = "count" -> 7000
      [] pc[t] = "release" -> 8000
      [] pc[t] = "done" -> 9000

RECURSIVE SumRank(_)
SumRank(n) == IF n = 0 THEN 0 ELSE Rank(n) + SumRank(n - 1)

Measure == SumRank(Len(profileIDs)) + (IF exitCode = -1 THEN 0 ELSE 1)

\* goroutine t is at a request to the API, which returns within the timeout of
\* the HTTP client: the steps at these places have no guard but the place
Requesting(t) == pc[t] \in {"list", "index", "create", "push"}

CanStep(t) ==
    \/ Requesting(t)
    \/ ENABLED (\/ Acquire(t) \/ GhRLock(t) \/ GhRead(t) \/ GhHttp(t) \/ GhLock(t)
                \/ GhWrite(t) \/ DeleteFolder(t) \/ Settle(t) \/ Collect(t)
                \/ Count(t) \/ Release(t))

C2_NotStuck ==
    /\ \A t \in Tasks :
        \/ pc[t] = "done"
        \/ CanStep(t)
        \/ /\ pc[t] = "queued"
           /\ \E u \in Tasks : Running(u) /\ CanStep(u)
        \/ /\ pc[t] \in {"ghRLock", "ghLock"}
           /\ \E u \in Tasks \ {t} :
                /\ u \in cacheMutex.readers \/ u = cacheMutex.writer
                /\ CanStep(u)
    /\ (\A t \in Tasks : pc[t] = "done") =>
            /\ semaphore = 0
            /\ Len(allResults) = Len(profileIDs)
            /\ exitCode # -1 \/ ENABLED MainExit

C2_Progress == Measure' > Measure /\ Measure' <= 9000 * Len(profileIDs) + 1

C2_Termination == [](C2_NotStuck) /\ [][C2_Progress]_vars

\* the faulty profile failed and gave its slot back first, and the run ended
\* with all the profiles attempted, the one that had to wait included
C2_Witness ==
    /\ exitCode # -1
    /\ \A t \in Tasks : pc[t] = "done"
    /\ Len(allResults) = Len(profileIDs)
    /\ allResults[1].ProfileID = Faulty
    /\ ~allResults[1].Success

----------------------------------------------------------------------------
(* C3: the exit status is decided when all the pipelines have finished, and *)
(* it is 0 exactly when the ProfileResult of every profile has Success.     *)

C3_ExitStatus ==
    exitCode # -1 =>
        /\ \A t \in Tasks : pc[t] = "done"
        /\ exitCode \in {0, 1}
        /\ exitCode = 0 <=> \A t \in Tasks : result[t].Success

\* one profile failed, the others succeeded, the process exits with 1
C3_Witness ==
    /\ exitCode = 1
    /\ \E t \in Tasks : ~result[t].Success
    /\ \E t \in Tasks : result[t].Success

----------------------------------------------------------------------------
(* syncProfile run alone, from its start to its end, with no request        *)
(* failing (main.go:1078-1156): the reference for C4.                      *)

IdOrder(n) == [i \in 1..n |-> i]

RECURSIVE SeqDeletes(_, _, _, _)
SeqDeletes(rem, list, folders, i) ==
    IF i > Len(list) THEN rem
    ELSE LET name == FolderName(list[i])
         IN  SeqDeletes(IF name \in DOMAIN folders
                        THEN RemoteDelete(rem, folders[name]) ELSE rem,
                        list, folders, i + 1)

RECURSIVE SeqFolders(_, _, _, _, _)
SeqFolders(list, i, rem, existing, out) ==
    IF i > Len(list) THEN out
    ELSE LET name == FolderName(list[i])
             rem2 == RemoteCreate(rem, name)
             folders == listExistingFolders(
                            RemoteGroups(rem2, IdOrder(Len(rem2.groups))))
             hostnames == Hostnames(list[i])
             n == TotalBatches(Len(FilterHostnames(hostnames, existing)))
             r == pushRules(hostnames, existing, [b \in 1..n |-> TRUE])
         IN  IF TrimSpace(name) \notin DOMAIN folders
             THEN SeqFolders(list, i + 1, rem2, existing,
                      Append(out, [Name |-> name, Rules |-> 0, Duplicates |-> 0,
                                   Success |-> FALSE]))
             ELSE SeqFolders(list, i + 1,
                      RemoteAddRules(rem2, folders[TrimSpace(name)],
                                     r.existingRules \ existing),
                      r.existingRules,
                      Append(out, [Name |-> name, Rules |-> r.rulesAdded,
                                   Duplicates |-> r.duplicates, Success |-> r.ok]))

SeqSyncProfile(id, list, rem) ==
    IF Len(list) = 0
    THEN [ProfileID |-> id, Folders |-> <<>>, Success |-> FALSE]
    ELSE LET folders == listExistingFolders(
                            RemoteGroups(rem, IdOrder(Len(rem.groups))))
             rem1 == SeqDeletes(rem, list, folders, 1)
             existing == getAllExistingRules(rem1, TRUE, TRUE,
                             IdOrder(Len(rem1.groups)), {}).allRules
             fs == SeqFolders(list, 1, rem1, existing, <<>>)
         IN  [ProfileID |-> id, Folders |-> fs,
              Success |-> ProfileSuccess(fs, Len(list))]

(* C4: profiles are independent failure domains.  In SpecConc only the      *)
(* requests of profile Faulty can fail, and its runs where they fail and    *)
(* where they do not are all explored: in each of them, under every          *)
(* interleaving, the ProfileResult of every other profile is the one that   *)
(* syncProfile gives when run alone on that profile's own remote.           *)

C4_Isolation ==
    \A t \in Tasks :
        (profileIDs[t] # Faulty /\ Finished(t)) =>
            result[t] = SeqSyncProfile(profileIDs[t],
                            [i \in 1..Len(FolderURLs) |-> source[FolderURLs[i]]],
                            remote0[profileIDs[t]])

\* the folder listing of the faulty profile failed and it ended first; the
\* profiles before and after it in the configuration finished unaffected
C4_Witness ==
    /\ \E t \in Tasks : profileIDs[t] = Faulty /\ ListFailed(t) /\ pc[t] = "done"
    /\ Len(allResults) >= 3
    /\ allResults[1].ProfileID = Faulty
    /\ \A t \in {1, 3} : Finished(t) /\ result[t].Success

----------------------------------------------------------------------------
(* C5: the Success of the ProfileResult that syncProfile returns is true    *)
(* exactly when at least one definition was fetched, the listings of the    *)
(* existing folders (the first one and the one that builds the index)       *)
(* succeeded, and every FolderResult of the profile has Success.            *)

FoldersListable(t) == ListedOk(t) /\ IndexedOk(t)

C5_ProfileSuccess ==
    \A t \in Tasks :
        Finished(t) =>
            (result[t].Success <=>
                /\ Len(folderDataList[t]) > 0
                /\ FoldersListable(t)
                /\ \A k \in 1..Len(result[t].Folders) : result[t].Folders[k].Success)

\* a run that ends with Success and one with a failed folder only
C5_Witness ==
    \E t \in Tasks :
        /\ Finished(t)
        /\ result[t].Success
        /\ Len(result[t].Folders) = MaxURLs

----------------------------------------------------------------------------
(* C6: when no definition could be fetched, or the first listing of the     *)
(* existing folders fails, syncProfile returns at once, with Success false  *)
(* and no FolderResult, and makes no further request.                       *)

Fetching(t) == pc[t] \in {"ghRLock", "ghRead", "ghHttp", "ghLock", "ghWrite"}

C6_StructuralAbort ==
    \A t \in Tasks :
        /\ ListFailed(t) => Finished(t)
        /\ (Running(t) /\ ~Fetching(t) /\ Len(folderDataList[t]) = 0) =>
                Finished(t) /\ ~HasCall(t, "list")
        /\ (Finished(t) /\ (Len(folderDataList[t]) = 0 \/ ListFailed(t))) =>
                /\ ~result[t].Success
                /\ result[t].Folders = <<>>
                /\ \A op \in {"delete", "index", "create", "push"} : ~HasCall(t, op)

\* the first listing failed after all the definitions were fetched
C6_Witness ==
    \E t \in Tasks :
        /\ Finished(t)
        /\ ListFailed(t)
        /\ Len(folderDataList[t]) = MaxURLs

----------------------------------------------------------------------------
(* C7: in the per-folder stage every definition gets its createFolder call  *)
(* and its FolderResult, whatever happened to the definitions before it,    *)
(* and the Success of a FolderResult is false exactly when the creation or  *)
(* the push of that same folder failed.                                     *)

CallAt(t, op, i) ==
    {k \in 1..Len(calls[t]) : calls[t][k].op = op /\ calls[t][k].i = i}

CreateOk(t, i) == \E k \in CallAt(t, "create", i) : calls[t][k].ok

PushOk(t, i) == \E k \in CallAt(t, "push", i) : calls[t][k].ok

C7_FolderFailureIsLocal ==
    \A t \in Tasks :
        /\ \A k \in 1..Len(result[t].Folders) :
            /\ result[t].Folders[k].Name = TrimSpace(folderDataList[t][k].Group.Group)
            /\ CallAt(t, "create", k) # {}
            /\ result[t].Folders[k].Success <=> (CreateOk(t, k) /\ PushOk(t, k))
        /\ (Finished(t) /\ IndexedOk(t)) =>
                Len(result[t].Folders) = Len(folderDataList[t])

\* the first folder failed, the second was created and filled
C7_Witness ==
    \E t \in Tasks :
        /\ Finished(t)
        /\ Len(result[t].Folders) = 2
        /\ ~result[t].Folders[1].Success
        /\ result[t].Folders[2].Success
        /\ CreateOk(t, 2) /\ PushOk(t, 2)

----------------------------------------------------------------------------
(* C8: among the requests of one pipeline, every delete comes before the    *)
(* building of the index, the index is built once, and it is built before   *)
(* the first create (and push).                                             *)

OpAt(t, k) == calls[t][k].op

C8_IndexBetweenDeleteAndCreate ==
    \A t \in Tasks :
        /\ Len(CallsOf(t, "index")) <= 1
        /\ \A j, k \in 1..Len(calls[t]) :
            /\ (OpAt(t, j) = "delete" /\ OpAt(t, k) = "index") => j < k
            /\ (OpAt(t, j) = "index" /\ OpAt(t, k) \in {"create", "push"}) => j < k
            /\ (OpAt(t, j) = "delete" /\ OpAt(t, k) \in {"create", "push"}) => j < k
        /\ (HasCall(t, "create") \/ HasCall(t, "push")) => IndexedOk(t)

\* a pipeline that has deleted a folder, built the index and created a folder
C8_Witness ==
    \E t \in Tasks :
        HasCall(t, "delete") /\ HasCall(t, "index") /\ HasCall(t, "create")

----------------------------------------------------------------------------
(* C9: the folders that get a delete request.                               *)

\* the delete stage of goroutine t is over
PastDeletes(t) == ListedOk(t) /\ pc[t] # "delete"

DeletedIds(t) ==
    {calls[t][k].id : k \in {j \in 1..Len(calls[t]) : OpAt(t, j) = "delete"}}

\* the trimmed names of the definitions goroutine t has fetched
DefNames(t) ==
    {TrimSpace(folderDataList[t][i].Group.Group) : i \in 1..Len(folderDataList[t])}

\* the ids of the folders that had the trimmed name n when the run started
IdsNamed(t, n) ==
    LET groups == remote0[profileIDs[t]].groups
    IN  {interfaceToString(groups[i].PK) :
            i \in {j \in 1..Len(groups) : TrimSpace(groups[j].Group) = n}}

(* C9 as stated: the delete requests go to exactly the folders whose        *)
(* trimmed name is the trimmed name of a fetched definition.                *)
C9_Original ==
    \A t \in Tasks :
        PastDeletes(t) => DeletedIds(t) = UNION {IdsNamed(t, n) : n \in DefNames(t)}

(* C9, amended: a delete request only goes to a folder whose trimmed name   *)
(* is the trimmed name of a fetched definition, and for each such name that *)
(* the remote holds, exactly one of the folders of that name gets one.      *)
C9_Amended ==
    \A t \in Tasks :
        PastDeletes(t) =>
            /\ DeletedIds(t) \subseteq UNION {IdsNamed(t, n) : n \in DefNames(t)}
            /\ \A n \in DefNames(t) :
                IdsNamed(t, n) # {} =>
                    Cardinality(DeletedIds(t) \cap IdsNamed(t, n)) = 1

\* two folders of the remote have the name of a definition, one was deleted
C9_Witness ==
    \E t \in Tasks :
        /\ PastDeletes(t)
        /\ \E n \in DefNames(t) :
            /\ Cardinality(IdsNamed(t, n)) = 2
            /\ Cardinality(DeletedIds(t) \cap IdsNamed(t, n)) = 1

----------------------------------------------------------------------------
(* C10: the remote after a run in which every request succeeded.            *)

CleanRun(t) == Finished(t) /\ result[t].Success /\ AllRequestsOk(t)

GroupsOf(t) == Range(remote[profileIDs[t]].groups)

DefHosts(t, i) ==
    {h \in {folderDataList[t][i].Rules[k].PK :
                k \in 1..Len(folderDataList[t][i].Rules)} : h # <<>>}

\* the hostnames sent by the push for definition i
SentHosts(t, i) ==
    UNION {UNION {Range(calls[t][k].sent[b]) : b \in 1..Len(calls[t][k].sent)} :
             k \in CallAt(t, "push", i)}

(* C10 as stated: for every definition, the folder of that name holds       *)
(* exactly the hostnames of the definition.                                 *)
C10_Original ==
    \A t \in Tasks :
        CleanRun(t) =>
            \A i \in 1..Len(folderDataList[t]) :
                /\ \E g \in GroupsOf(t) :
                    TrimSpace(g.Group) = TrimSpace(folderDataList[t][i].Group.Group)
                /\ \A g \in GroupsOf(t) :
                    TrimSpace(g.Group) = TrimSpace(folderDataList[t][i].Group.Group)
                        => g.rules = DefHosts(t, i)

(* C10, amended: for every definition, every hostname of it is stored in    *)
(* the profile; those that were not in the index were sent, and are in the  *)
(* folder that got the push, which bears the name of the definition; those  *)
(* that were in the index (root scope, another folder, or an earlier push   *)
(* of the run) were not sent again.                                         *)
C10_Amended ==
    \A t \in Tasks :
        CleanRun(t) =>
            \A i \in 1..Len(folderDataList[t]) :
                /\ DefHosts(t, i) \subseteq RemoteAllRules(remote[profileIDs[t]])
                /\ SentHosts(t, i) \subseteq DefHosts(t, i)
                /\ \E k \in CallAt(t, "push", i) : \E g \in GroupsOf(t) :
                    /\ interfaceToString(g.PK) = calls[t][k].id
                    /\ TrimSpace(g.Group) = TrimSpace(folderDataList[t][i].Group.Group)
                    /\ SentHosts(t, i) \subseteq g.rules
                /\ \A h \in DefHosts(t, i) \ SentHosts(t, i) :
                    \/ h \in RemoteAllRules(remote0[profileIDs[t]])
                    \/ h \in UNION {SentHosts(t, j) : j \in 1..(i - 1)}

\* a hostname of the second definition was already sent for the first one, so
\* the second folder does not hold it
C10_Witness ==
    \E t \in Tasks :
        /\ CleanRun(t)
        /\ Len(folderDataList[t]) = 2
        /\ SentHosts(t, 2) # {}
        /\ DefHosts(t, 2) \ SentHosts(t, 2) # {}
        /\ DefHosts(t, 2) \cap SentHosts(t, 1) # {}

----------------------------------------------------------------------------
(* C11: pushRules sends exactly the hostnames of its input that are not in  *)
(* the index, in the order of the input; duplicateCount is the number of     *)
(* entries of the input found in the index; when every batch is accepted    *)
(* pushedCount is the length of the input minus duplicateCount.  With the   *)
(* index {1,2,3} and the input [2,3,4]: pushed 1, duplicates 2, only 4 sent. *)

RECURSIVE Flatten(_, _)
Flatten(batches, b) ==
    IF b > Len(batches) THEN <<>> ELSE batches[b] \o Flatten(batches, b + 1)

\* the hostnames of all the batches of the call, in the order they were sent
PushSent == Flatten(push.ret.batches, 1)

InIndex(i) == push.hostnames[i] \in push.existing

\* the positions of the input whose hostname is not in the index
NewPos == {i \in 1..Len(push.hostnames) : ~InIndex(i)}

C11_SendsTheNewHostnames ==
    push.called =>
        /\ Len(PushSent) = Cardinality(NewPos)
        /\ \A i \in NewPos :
                PushSent[Cardinality({j \in NewPos : j <= i})] = push.hostnames[i]
        /\ push.ret.duplicates =
                Cardinality({i \in 1..Len(push.hostnames) : InIndex(i)})
        /\ (\A b \in DOMAIN push.accepted : push.accepted[b]) =>
                push.ret.rulesAdded = Len(push.hostnames) - push.ret.duplicates
        /\ (push.hostnames = <<H2, H3, H4>> /\ push.existing = {H1, H2, H3}
                /\ push.accepted[1]) =>
                /\ push.ret.rulesAdded = 1
                /\ push.ret.duplicates = 2
                /\ PushSent = <<H4>>

C11_Witness ==
    /\ push.called
    /\ push.hostnames = <<H2, H3, H4>>
    /\ push.existing = {H1, H2, H3}
    /\ push.ret.rulesAdded = 1
    /\ push.ret.batches = <<(<<H4>>)>>

----------------------------------------------------------------------------
(* C12: within the run of one profile, a hostname of a batch that was       *)
(* accepted for one folder is not sent for any later folder, and each       *)
(* entry of the later folder's definition that names it is counted in the   *)
(* Duplicates of that folder, also when the remote did not hold it before   *)
(* the run.                                                                 *)

PushCalls(t) == {k \in 1..Len(calls[t]) : OpAt(t, k) = "push"}

\* the hostnames of call k of goroutine t: all that were sent, those accepted
SentIn(t, k) ==
    UNION {Range(calls[t][k].sent[b]) : b \in 1..Len(calls[t][k].sent)}

AcceptedIn(t, k) ==
    UNION {Range(calls[t][k].sent[b]) :
             b \in {c \in 1..Len(calls[t][k].sent) : calls[t][k].acc[c]}}

\* the positions of the rules of definition i of goroutine t that name hostname x
Entries(t, i, x) ==
    {p \in 1..Len(folderDataList[t][i].Rules) : folderDataList[t][i].Rules[p].PK = x}

C12_LaterFoldersSkipAccepted ==
    \A t \in Tasks : \A a, b \in PushCalls(t) :
        a < b =>
            /\ AcceptedIn(t, a) \cap SentIn(t, b) = {}
            /\ result[t].Folders[calls[t][b].i].Duplicates >=
                    Cardinality(UNION {Entries(t, calls[t][b].i, x) :
                                         x \in AcceptedIn(t, a)})

\* hostname 2 was not on the remote, was accepted for the first folder, and
\* is counted as a duplicate of the second
C12_Witness ==
    \E t \in Tasks : \E a, b \in PushCalls(t) :
        /\ a < b
        /\ H2 \notin RemoteAllRules(remote0[profileIDs[t]])
        /\ H2 \in AcceptedIn(t, a)
        /\ Entries(t, calls[t][b].i, H2) # {}
        /\ result[t].Folders[calls[t][b].i].Duplicates = 1
        /\ SentIn(t, b) = {H3}

----------------------------------------------------------------------------
(* C13: the submissions of one hostname within the run of one profile.      *)

\* how many times hostname x is in the batches of call k of goroutine t
TimesSent(t, k, x) ==
    LET sent == Flatten(calls[t][k].sent, 1)
    IN  Cardinality({p \in 1..Len(sent) : sent[p] = x})

RECURSIVE TimesSentUpTo(_, _, _)
TimesSentUpTo(t, k, x) ==
    IF k = 0 THEN 0
    ELSE (IF OpAt(t, k) = "push" THEN TimesSent(t, k, x) ELSE 0)
         + TimesSentUpTo(t, k - 1, x)

AllHosts == {H1, H2, H3, <<>>}

----------------------------------------------------------------------------
(* C14: with N hostnames left after the filter, pushRules submits           *)
(* ceil(N / BatchSize) batches; every batch but the last has BatchSize      *)
(* entries, the last has N mod BatchSize entries, or BatchSize when that is  *)
(* 0; no batch is empty; the batches put end to end are the filtered list.  *)

Filtered == SelectSeq(push.hostnames, LAMBDA h : h \notin push.existing)

C14_Batching ==
    push.called =>
        LET N == Len(Filtered)
            batches == push.ret.batches
            n == Len(batches)
        IN  /\ n * BatchSize >= N
            /\ (n - 1) * BatchSize < N
            /\ \A b \in 1..(n - 1) : Len(batches[b]) = BatchSize
            /\ n > 0 => Len(batches[n]) =
                    (IF N % BatchSize = 0 THEN BatchSize ELSE N % BatchSize)
            /\ \A b \in 1..n : Len(batches[b]) > 0
            /\ Flatten(batches, 1) = Filtered

\* 2 * BatchSize + 1 hostnames are left: two full batches and one of 1
C14_Witness ==
    /\ push.called
    /\ Len(Filtered) = 2 * BatchSize + 1
    /\ Len(push.ret.batches) = 3
    /\ Len(push.ret.batches[3]) = 1

----------------------------------------------------------------------------
(* C15: when a batch fails, the batches after it are still sent; the call   *)
(* returns success = false; pushedCount is the total size of the accepted   *)
(* batches; the index gains the hostnames of the accepted batches and none  *)
(* of a failed batch.                                                       *)

AcceptedBatches == {b \in 1..Len(push.ret.batches) : push.accepted[b]}

RECURSIVE SizeOf(_, _)
\* the total size of the batches of set bs
SizeOf(batches, bs) ==
    IF bs = {} THEN 0
    ELSE LET b == CHOOSE c \in bs : TRUE
         IN  Len(batches[b]) + SizeOf(batches, bs \ {b})

C15_PartialFailure ==
    (push.called /\ \E b \in DOMAIN push.accepted : ~push.accepted[b]) =>
        LET batches == push.ret.batches
        IN  /\ Len(batches) = Len(push.accepted)
            /\ ~push.ret.ok
            /\ push.ret.rulesAdded = SizeOf(batches, AcceptedBatches)
            /\ push.ret.existingRules \ push.existing =
                    UNION {Range(batches[b]) : b \in AcceptedBatches}
            /\ \A b \in 1..Len(batches) : ~push.accepted[b] =>
                    \A h \in Range(batches[b]) :
                        h \in push.ret.existingRules =>
                            \E c \in AcceptedBatches : h \in Range(batches[c])

\* batch 2 of 3 fails: the hostnames of batches 1 and 3 are counted and indexed
C15_Witness ==
    /\ push.called
    /\ push.existing = {}
    /\ push.accepted = <<TRUE, FALSE, TRUE>>
    /\ push.ret.rulesAdded = BatchSize + 1
    /\ <<2 * BatchSize + 1>> \in push.ret.existingRules
    /\ <<BatchSize + 1>> \notin push.ret.existingRules

----------------------------------------------------------------------------
(* C16: a FolderResult with Success belongs to a folder whose creation      *)
(* succeeded and whose batches were all accepted; a folder whose creation   *)
(* failed, or one of whose batches was rejected, has Success false.         *)

\* some batch of the push for definition i was rejected
Rejected(t, i) ==
    \E k \in CallAt(t, "push", i) :
        \E b \in 1..Len(calls[t][k].sent) : ~calls[t][k].acc[b]

C16_FolderSuccess ==
    \A t \in Tasks : \A i \in 1..Len(result[t].Folders) :
        /\ result[t].Folders[i].Success =>
                /\ CreateOk(t, i)
                /\ CallAt(t, "push", i) # {}
                /\ ~Rejected(t, i)
        /\ (~CreateOk(t, i) \/ Rejected(t, i)) => ~result[t].Folders[i].Success

\* the batch of the first folder was rejected and the second folder could not
\* be created
C16_Witness ==
    \E t \in Tasks :
        /\ Len(result[t].Folders) = 2
        /\ CreateOk(t, 1) /\ Rejected(t, 1) /\ ~result[t].Folders[1].Success
        /\ ~CreateOk(t, 2) /\ ~result[t].Folders[2].Success

----------------------------------------------------------------------------
(* C17: retryRequest makes at most MaxRetries attempts and stops at the     *)
(* first one that ends without transport error and with a status below     *)
(* 400, returning its response and no error; when all the attempts fail it  *)
(* returns no response and an error that describes the last attempt.  What  *)
(* it reports is what the function retryRequest of the pipelines reports.   *)

Succeeded(r) == r.err = FALSE /\ r.status < 400

\* the attempts made so far as outcomes, completed with successes
OutcomesOfLog ==
    [k \in 1..MaxRetries |-> IF k <= Len(retry.log) THEN Succeeded(retry.log[k]) ELSE TRUE]

C17_Retry ==
    LET n == Len(retry.log)
    IN  /\ n <= MaxRetries
        /\ \A k \in 1..(n - 1) : ~Succeeded(retry.log[k])
        /\ (retry.pc # "returned" /\ n > 0) => ~Succeeded(retry.log[n])
        /\ retry.pc = "returned" =>
            /\ n > 0
            /\ IF Succeeded(retry.log[n])
               THEN retry.resp = <<retry.log[n]>> /\ retry.err = NoErr
               ELSE /\ n = MaxRetries
                    /\ retry.resp = <<>>
                    /\ retry.err # NoErr
                    /\ retry.err.status = retry.log[n].status
                    /\ retry.err.kind = "transport" <=> retry.log[n].err
            /\ retryRequest(OutcomesOfLog).ok = (retry.err = NoErr)
            /\ retryRequest(OutcomesOfLog).attempts = n

\* two attempts failed differently, the third succeeded
C17_Witness ==
    /\ retry.pc = "returned"
    /\ Len(retry.log) = MaxRetries
    /\ retry.log[1].err
    /\ retry.log[2].status = 500
    /\ retry.resp = <<[err |-> FALSE, status |-> 399]>>
    /\ retry.err = NoErr

----------------------------------------------------------------------------
(* C18: retryRequest waits RetryDelay * 2^k after the failed attempt of     *)
(* index k (from 0): 1s after the first failure and 2s after the second;    *)
(* it does not wait after an attempt that succeeded nor after the last      *)
(* attempt.                                                                 *)

C18_Backoff ==
    LET n == Len(retry.log)
    IN  /\ retry.waits \in {<<>>, <<1>>, <<1, 2>>}
        /\ \A k \in 1..Len(retry.waits) : retry.waits[k] = RetryDelay * 2 ^ (k - 1)
        /\ retry.pc = "request" => Len(retry.waits) = n
        /\ retry.pc \in {"sleep", "returned"} => Len(retry.waits) = n - 1
        /\ retry.pc = "returned" => retryRequest(OutcomesOfLog).waits = retry.waits

\* three failed attempts: waits of 1s and 2s, none after the last
C18_Witness ==
    /\ retry.pc = "returned"
    /\ retry.err # NoErr
    /\ retry.waits = <<1, 2>>

----------------------------------------------------------------------------
(* C19: once a definition is in the cache for a URL, the entry is never     *)
(* removed nor replaced by another value.                                   *)

CacheEntriesStay ==
    \A url \in DOMAIN cache : url \in DOMAIN cache' /\ cache'[url] = cache[url]

C19_Original == [][CacheEntriesStay]_vars

----------------------------------------------------------------------------
(* C20: over a whole run at most one successful HTTP GET is made for each   *)
(* definition URL.                                                          *)

SuccessfulGets(url) ==
    {<<t, k>> \in Tasks \X (1..(2 * Len(FolderURLs))) :
        /\ k <= Len(calls[t])
        /\ calls[t][k].op = "get"
        /\ calls[t][k].id = url
        /\ calls[t][k].ok}

C20_Original ==
    \A url \in Range(FolderURLs) : Cardinality(SuccessfulGets(url)) <= 1

----------------------------------------------------------------------------
(* C21: the program run twice in succession on a profile, with the same     *)
(* definitions, nobody else changing the remote and no request failing in   *)
(* either run.  After the second run no hostname is stored in more places   *)
(* than after the first one, so none is newly duplicated, and none is       *)
(* stored in more than one place unless it was so before the first run; the *)
(* profile has folders of the same names, the folders of each name hold the *)
(* same hostnames as after the first run, and so does the root scope.       *)

\* the places of a profile where hostname h is stored: folders and root scope
Places(rem, h) ==
    {interfaceToString(rem.groups[i].PK) :
        i \in {j \in 1..Len(rem.groups) : h \in rem.groups[j].rules}}
    \cup (IF h \in rem.rules THEN {"root"} ELSE {})

NoDuplicate(rem) == \A h \in RemoteAllRules(rem) : Cardinality(Places(rem, h)) <= 1

NamesOf(rem) == {TrimSpace(rem.groups[i].Group) : i \in 1..Len(rem.groups)}

\* the hostnames held by the folders of trimmed name n
RulesNamed(rem, n) ==
    UNION {rem.groups[i].rules :
             i \in {j \in 1..Len(rem.groups) : TrimSpace(rem.groups[j].Group) = n}}

\* the first run is over and no request of it failed
FirstRunClean(t) ==
    /\ prev.done
    /\ prev.allResults[t].Success
    /\ \A k \in 1..Len(prev.calls[t]) : prev.calls[t][k].ok /\ prev.calls[t][k].clean

----------------------------------------------------------------------------
(* C22: when a listing made to build the index of existing rules fails      *)
(* (the rules of the root scope, the folders, or the rules of a folder),    *)
(* syncProfile ends with Success false, creates no folder and pushes no     *)
(* rule.                                                                    *)

\* a request of getAllExistingRules failed in goroutine t
IndexListingFailed(t) ==
    \E k \in 1..Len(calls[t]) : OpAt(t, k) = "index" /\ ~calls[t][k].clean

C22_Original ==
    \A t \in Tasks :
        IndexListingFailed(t) =>
            /\ Finished(t)
            /\ ~result[t].Success
            /\ ~HasCall(t, "create")
            /\ ~HasCall(t, "push")

----------------------------------------------------------------------------
(* C23: every step of a pipeline that fails (fetch of a definition, listing *)
(* of the folders, delete, listing or decoding of the rules of the root     *)
(* scope or of a folder, create, push of a batch) writes a message to the   *)
(* log, during the call in which it fails.                                  *)

\* goroutine t logged a message with this text during its call k
Logged(t, k, text) == \E m \in logs[t] : m.call = k /\ m.text = text

C23_Original ==
    \A t \in Tasks : \A k \in 1..Len(calls[t]) :
        LET c == calls[t][k]
        IN  /\ (c.op = "get" /\ ~c.ok) =>
                    \E m \in logs[t] :
                        /\ m.call = k
                        /\ m.text = "Failed to fetch folder data from"
                        /\ m.id = c.id
            /\ (c.op = "list" /\ ~c.ok) => Logged(t, k, "Failed to list existing folders")
            /\ (c.op = "delete" /\ ~c.ok) =>
                    \E m \in logs[t] :
                        m.call = k /\ m.text = "Failed to delete folder" /\ m.id = c.id
            /\ (c.op = "create" /\ ~c.ok) =>
                    \E m \in logs[t] :
                        m.call = k /\ m.text = "Failed to create folder" /\ m.name = c.name
            /\ c.op = "push" =>
                    \A b \in 1..Len(c.sent) :
                        ~c.acc[b] =>
                            \E m \in logs[t] :
                                /\ m.call = k
                                /\ m.text = "Failed to push batch"
                                /\ m.batch = b
            /\ c.op = "index" =>
                    /\ c.root # "ok" =>
                            Logged(t, k, "Warning: Failed to get root folder rules")
                    /\ ~c.listOk => Logged(t, k, "Failed to get existing rules")
                    /\ \A id \in c.failed :
                        c.listOk =>
                            \E m \in logs[t] :
                                /\ m.call = k
                                /\ m.text = "Warning: Failed to get rules from folder"
                                /\ m.id = id

----------------------------------------------------------------------------
(* C24: a deleteFolder that fails does not end the pipeline.  The index is  *)
(* built after the delete stage, and when it is built every fetched         *)
(* definition gets its createFolder call, the definition whose folder could *)
(* not be deleted included; the folder created for it can then stand next   *)
(* to the old one of the same name.                                         *)

\* the positions of the definitions whose deleteFolder failed
FailedDeletes(t) ==
    {calls[t][k].i : k \in {j \in 1..Len(calls[t]) :
                                OpAt(t, j) = "delete" /\ ~calls[t][j].ok}}

C24_DeleteNotFatal ==
    \A t \in Tasks :
        FailedDeletes(t) # {} =>
            /\ (pc[t] \notin {"delete", "index"}) => HasCall(t, "index")
            /\ (Finished(t) /\ IndexedOk(t)) =>
                    /\ \A i \in 1..Len(folderDataList[t]) : CallAt(t, "create", i) # {}
                    /\ Len(result[t].Folders) = Len(folderDataList[t])

\* the folder of a definition could not be deleted, the definition got its
\* folder all the same, and the remote holds both
C24_Witness ==
    \E t \in Tasks : \E i \in FailedDeletes(t) :
        /\ Finished(t)
        /\ CreateOk(t, i)
        /\ \E k \in CallAt(t, "delete", i) :
            \E g, h \in GroupsOf(t) :
                /\ interfaceToString(g.PK) = calls[t][k].id
                /\ interfaceToString(h.PK) # calls[t][k].id
                /\ TrimSpace(h.Group) = TrimSpace(g.Group)
                /\ TrimSpace(g.Group) = TrimSpace(folderDataList[t][i].Group.Group)
                /\ interfaceToString(h.PK) \notin RemoteIds(remote0[profileIDs[t]])

----------------------------------------------------------------------------
(* C25: a fetch of a definition is not retried.  A call of ghGet makes no   *)
(* HTTP attempt when it finds the URL in the cache and exactly one when it  *)
(* does not; the attempt succeeds only without transport error, with status *)
(* 200 and a body that decodes; otherwise nothing is stored in the cache,   *)
(* the definition is left out of the list of the profile, and syncProfile   *)
(* goes on with the URLs that remain.                                       *)

\* the HTTP attempts goroutine t has made for URL number i
Attempts(t, i) == CallAt(t, "get", i)

\* the URLs that goroutine t has dealt with
Passed(t) ==
    IF Fetching(t) THEN 1..(urlIdx[t] - 1)
    ELSE IF Running(t) \/ pc[t] = "done" THEN 1..Len(FolderURLs) ELSE {}

FetchFailed(t, i) == \E k \in Attempts(t, i) : ~calls[t][k].ok

C25_FetchOnce ==
    \A t \in Tasks :
        /\ \A i \in 1..Len(FolderURLs) :
            /\ Cardinality(Attempts(t, i)) <= 1
            /\ \A k \in Attempts(t, i) :
                /\ calls[t][k].ok <=>
                    /\ ~calls[t][k].resp.err
                    /\ calls[t][k].resp.status = 200
                    /\ calls[t][k].resp.decodes
                /\ (~calls[t][k].ok /\ FolderURLs[i] \in DOMAIN cache) =>
                        \E u \in Tasks \ {t} : \E j \in Attempts(u, i) : calls[u][j].ok
            /\ (pc[t] = "ghHttp" /\ urlIdx[t] = i) => Attempts(t, i) = {}
            /\ (pc[t] \in {"ghLock", "ghWrite"} /\ urlIdx[t] = i) =>
                    Cardinality(Attempts(t, i)) = 1 /\ ~FetchFailed(t, i)
            /\ (i \in Passed(t) /\ Attempts(t, i) = {}) => FolderURLs[i] \in DOMAIN cache
        /\ (Running(t) /\ ~Fetching(t)) => urlIdx[t] = Len(FolderURLs) + 1
        /\ Len(folderDataList[t]) = Cardinality({i \in Passed(t) : ~FetchFailed(t, i)})
        /\ \A i \in Passed(t) :
            ~FetchFailed(t, i) =>
                folderDataList[t][Cardinality({j \in 1..i : ~FetchFailed(t, j)})]
                    = source[FolderURLs[i]]

\* the first fetch of a profile failed on a status below 400 that is not 200,
\* nothing was cached for that URL, and the profile went on with the second
\* definition alone
C25_Witness ==
    \E t \in Tasks :
        /\ Running(t) /\ ~Fetching(t)
        /\ \E k \in Attempts(t, 1) :
            ~calls[t][k].resp.err /\ calls[t][k].resp.status = 204
        /\ FolderURLs[1] \notin DOMAIN cache
        /\ Len(folderDataList[t]) = 1
        /\ folderDataList[t][1] = source[FolderURLs[2]]
        /\ HasCall(t, "create")

----------------------------------------------------------------------------
(* C26: the accesses to the cache map are guarded by cacheMutex.  A         *)
(* goroutine reads the map only while it holds the read lock and writes it  *)
(* only while it holds the write lock; a goroutine about to write is never  *)
(* there together with one about to read or to write; no goroutine holds    *)
(* the mutex while it makes its HTTP GET, or anywhere else outside ghGet.   *)
(* Several goroutines can hold the read lock together (the witness).        *)

\* goroutine t is at the lookup cache[url] (main.go:824)
ReadingCache(t) == pc[t] = "ghRead"

\* goroutine t is at the assignment cache[url] = data (main.go:847)
WritingCache(t) == pc[t] = "ghWrite"

C26_CacheGuarded ==
    /\ \A t \in Tasks :
        /\ ReadingCache(t) <=> t \in cacheMutex.readers
        /\ WritingCache(t) <=> cacheMutex.writer = t
        /\ WritingCache(t) =>
                \A u \in Tasks \ {t} : ~WritingCache(u) /\ ~ReadingCache(u)
        /\ pc[t] = "ghHttp" => t \notin cacheMutex.readers /\ cacheMutex.writer # t
    /\ cacheMutex.writer # 0 => cacheMutex.readers = {}

\* two goroutines hold the read lock while a third, which has fetched the
\* document, waits for the write lock
C26_Witness ==
    /\ Cardinality(cacheMutex.readers) >= 2
    /\ Cardinality({t \in Tasks : ReadingCache(t)}) >= 2
    /\ \E t \in Tasks : pc[t] = "ghLock"

----------------------------------------------------------------------------
(* C27: the map returned by listExistingFolders has only trimmed, non-empty *)
(* names as keys and only non-empty ids as values.                          *)

C27_Original ==
    listing.called =>
        \A n \in DOMAIN listing.ret :
            /\ n = TrimSpace(n)
            /\ n # <<>>
            /\ listing.ret[n] # ""

----------------------------------------------------------------------------
(* C28: when several groups of the response have the same trimmed name,     *)
(* the map keeps one id for that name, the id of the last of these groups   *)
(* in the order of the response.  The groups counted are those the map      *)
(* takes: a name that is not the empty string and an id that resolves.      *)

\* the positions of the groups of the response that are kept under name n
KeptAs(n) ==
    {i \in 1..Len(listing.groups) :
        /\ listing.groups[i].Group # <<>>
        /\ interfaceToString(listing.groups[i].PK) # ""
        /\ TrimSpace(listing.groups[i].Group) = n}

LastOf(ps) == CHOOSE i \in ps : \A j \in ps : j <= i

C28_LastWins ==
    listing.called =>
        /\ DOMAIN listing.ret =
                {TrimSpace(listing.groups[i].Group) :
                    i \in {j \in 1..Len(listing.groups) :
                            KeptAs(TrimSpace(listing.groups[j].Group)) # {}}}
        /\ \A n \in DOMAIN listing.ret :
                listing.ret[n] = interfaceToString(listing.groups[LastOf(KeptAs(n))].PK)

\* two groups named "a" and "a ", with different ids: the map has the one name
\* "a" with the id of the second group
C28_Witness ==
    /\ listing.called
    /\ Len(listing.groups) = 2
    /\ listing.groups[1].Group # listing.groups[2].Group
    /\ Cardinality(KeptAs(<<"a">>)) = 2
    /\ interfaceToString(listing.groups[1].PK) # interfaceToString(listing.groups[2].PK)
    /\ DOMAIN listing.ret = {<<"a">>}
    /\ listing.ret[<<"a">>] = interfaceToString(listing.groups[2].PK)

----------------------------------------------------------------------------
(* C29: createFolder returns an id only when the create call succeeded, the *)
(* listing after it succeeded and the name was found in it, and only after  *)
(* it has slept FolderCreationDelay (2 s): every pushRules call comes right  *)
(* after a createFolder for the same definition that found the id it uses   *)
(* and has slept.  When createFolder fails it has not slept, the folder     *)
(* gets a FolderResult without Success and no push, and the other           *)
(* definitions still get their createFolder.                                *)

\* the last call goroutine t has made
LastCall(t) == calls[t][Len(calls[t])]

C29_SettleDelay ==
    \A t \in Tasks :
        /\ \A k \in 1..Len(calls[t]) :
            LET c == calls[t][k]
            IN  /\ OpAt(t, k) = "create" =>
                    /\ c.ok => c.clean /\ c.id # ""
                    /\ ~c.ok =>
                        /\ c.slept = 0
                        /\ c.id = ""
                        /\ Len(result[t].Folders) >= c.i
                        /\ ~result[t].Folders[c.i].Success
                        /\ CallAt(t, "push", c.i) = {}
                    /\ c.ok =>
                        IF k = Len(calls[t]) /\ pc[t] = "settle"
                        THEN c.slept = 0
                        ELSE c.slept = FolderCreationDelay
                /\ OpAt(t, k) = "push" =>
                    /\ k > 1
                    /\ OpAt(t, k - 1) = "create"
                    /\ calls[t][k - 1].ok
                    /\ calls[t][k - 1].i = c.i
                    /\ calls[t][k - 1].id = c.id
                    /\ calls[t][k - 1].slept = FolderCreationDelay
        /\ pc[t] = "settle" =>
            /\ Len(calls[t]) > 0
            /\ LastCall(t).op = "create" /\ LastCall(t).ok
        /\ pc[t] = "push" =>
            /\ Len(calls[t]) > 0
            /\ LastCall(t).op = "create" /\ LastCall(t).ok
            /\ LastCall(t).slept = FolderCreationDelay
            /\ folderID[t] = LastCall(t).id
        /\ (Finished(t) /\ IndexedOk(t)) =>
            \A i \in 1..Len(folderDataList[t]) : CallAt(t, "create", i) # {}

\* the first createFolder failed without sleeping; the second one slept and
\* its folder got its rules
C29_Witness ==
    \E t \in Tasks :
        /\ Finished(t)
        /\ \E k \in CallAt(t, "create", 1) : ~calls[t][k].ok /\ calls[t][k].slept = 0
        /\ \E k \in CallAt(t, "create", 2) :
            calls[t][k].ok /\ calls[t][k].slept = FolderCreationDelay
        /\ PushOk(t, 2)
        /\ result[t].Folders[2].Rules > 0

----------------------------------------------------------------------------
(* C30: the collection of the results.  At any time allResults holds the    *)
(* results of the goroutines that have appended theirs, one each, and the   *)
(* counter is the number of the goroutines that have counted a success; an  *)
(* entry never changes once appended.  So when all the pipelines are done   *)
(* there is exactly one ProfileResult for every configured profile and the  *)
(* counter is the number of collected results with Success.                 *)

\* goroutine t has appended its result / has updated the counter
Collected(t) == pc[t] \in {"count", "release", "done"}
Counted(t) == pc[t] \in {"release", "done"}

EntriesOf(id) == {k \in 1..Len(allResults) : allResults[k].ProfileID = id}

C30_Collected ==
    /\ Len(allResults) = Cardinality({t \in Tasks : Collected(t)})
    /\ \A t \in Tasks :
        /\ Collected(t) =>
            /\ Cardinality(EntriesOf(profileIDs[t])) = 1
            /\ \A k \in EntriesOf(profileIDs[t]) : allResults[k] = result[t]
        /\ ~Collected(t) => EntriesOf(profileIDs[t]) = {}
    /\ successCount = Cardinality({t \in Tasks : Counted(t) /\ result[t].Success})
    /\ (\A t \in Tasks : pc[t] = "done") =>
        /\ Len(allResults) = Len(profileIDs)
        /\ \A i \in 1..Len(profileIDs) : Cardinality(EntriesOf(profileIDs[i])) = 1
        /\ successCount =
                Cardinality({k \in 1..Len(allResults) : allResults[k].Success})

\* an entry of allResults stays as it was appended
C30_EntriesStay ==
    /\ Len(allResults') >= Len(allResults)
    /\ \A k \in 1..Len(allResults) : allResults'[k] = allResults[k]

C30_ResultCollection == [](C30_Collected) /\ [][C30_EntriesStay]_vars

\* all the pipelines are done; the results were appended in another order
\* than the profiles are configured in, one of them without Success
C30_Witness ==
    /\ \A t \in Tasks : pc[t] = "done"
    /\ Len(allResults) = MaxProfiles
    /\ allResults[1].ProfileID = profileIDs[MaxProfiles]
    /\ \E k \in 1..Len(allResults) : ~allResults[k].Success
    /\ successCount = MaxProfiles - 1

----------------------------------------------------------------------------
(* C31: once the pipeline of a profile is in the per-folder stage, the      *)
(* Folders of its ProfileResult are the outcomes of the definitions dealt   *)
(* with so far, one each, in the order of the definition URLs whose fetch   *)
(* succeeded; when syncProfile has returned from that stage there is        *)
(* exactly one FolderResult for every fetched definition, whether its       *)
(* folder was created and filled or not.                                    *)

\* the positions in FolderURLs of the URLs goroutine t has fetched, in order
FetchedURLs(t) ==
    SelectSeq([i \in 1..Len(FolderURLs) |-> i],
              LAMBDA i : i \in Passed(t) /\ ~FetchFailed(t, i))

C31_OneResultPerDefinition ==
    \A t \in Tasks :
        LET fetched == FetchedURLs(t)
            folders == result[t].Folders
        IN  /\ Len(folders) <= Len(fetched)
            /\ \A k \in 1..Len(folders) :
                    folders[k].Name =
                        TrimSpace(source[FolderURLs[fetched[k]]].Group.Group)
            /\ pc[t] \in {"create", "settle", "push"} => Len(folders) = idx[t] - 1
            /\ (Finished(t) /\ IndexedOk(t)) => Len(folders) = Len(fetched)
            /\ (Finished(t) /\ ~IndexedOk(t)) => folders = <<>>

\* two definitions of different names were fetched; the folder of the first
\* could not be created, the push to the second failed, and both have their
\* FolderResult
C31_Witness ==
    \E t \in Tasks :
        /\ Finished(t)
        /\ IndexedOk(t)
        /\ FetchedURLs(t) = <<1, 2>>
        /\ ~CreateOk(t, 1)
        /\ CreateOk(t, 2) /\ ~PushOk(t, 2)
        /\ Len(result[t].Folders) = 2
        /\ result[t].Folders[1].Name = <<"a">>
        /\ result[t].Folders[2].Name = <<"b">>

----------------------------------------------------------------------------
(* C32: the id that createFolder returns, and that the push after it uses,  *)
(* is the id of the folder that call created: it is never the id of a       *)
(* folder the profile already had before the run, also after a failed       *)
(* delete of the folder of the same name.                                   *)

\* the ids of the folders the profile of goroutine t had before the run
OldIds(t) == RemoteIds(remote0[profileIDs[t]])

C32_Original ==
    \A t \in Tasks :
        \A k \in 1..Len(calls[t]) :
            /\ (OpAt(t, k) = "create" /\ calls[t][k].ok) =>
                    calls[t][k].id \notin OldIds(t)
            /\ OpAt(t, k) = "push" => calls[t][k].id \notin OldIds(t)

----------------------------------------------------------------------------
(* C33: what a syncProfile that ends early, with no FolderResult, has done  *)
(* to the remote profile.  As stated: it has issued no delete, create or    *)
(* push request and the profile is as it was before the run.                *)

\* syncProfile has returned in goroutine t without any folder outcome
EndedEarly(t) == Finished(t) /\ result[t].Folders = <<>>

\* goroutine t has made no request of the kinds in ops
NoCalls(t, ops) == \A op \in ops : ~HasCall(t, op)

C33_Original ==
    \A t \in Tasks :
        EndedEarly(t) =>
            /\ NoCalls(t, {"delete", "create", "push"})
            /\ remote[profileIDs[t]] = remote0[profileIDs[t]]

(* C33 as the code has it: syncProfile returns at once when it has no       *)
(* definition, when the first listing fails or when getAllExistingRules     *)
(* returns an error, and in all three cases it has issued no create and no  *)
(* push request.  In the first two cases it has issued no delete request    *)
(* either and the profile is as it was.  In the third case the delete       *)
(* requests for the folders named by the definitions have been issued, and  *)
(* the profile is as it was but for the folders whose delete succeeded.     *)

\* the ids of the folders whose delete request succeeded
DeletedOk(t) ==
    {calls[t][k].id : k \in {j \in 1..Len(calls[t]) :
                                OpAt(t, j) = "delete" /\ calls[t][j].ok}}

\* rem without the folders whose id is in ids
Without(rem, ids) ==
    [rem EXCEPT !.groups =
        SelectSeq(rem.groups, LAMBDA g : interfaceToString(g.PK) \notin ids)]

C33_Amended ==
    \A t \in Tasks :
        /\ IndexFailed(t) => EndedEarly(t)
        /\ EndedEarly(t) =>
            /\ ~result[t].Success
            /\ NoCalls(t, {"create", "push"})
            /\ Len(folderDataList[t]) = 0 \/ ListFailed(t) \/ IndexFailed(t)
            /\ (Len(folderDataList[t]) = 0 \/ ListFailed(t)) =>
                    /\ NoCalls(t, {"delete", "index"})
                    /\ remote[profileIDs[t]] = remote0[profileIDs[t]]
            /\ IndexFailed(t) =>
                    /\ DeletedIds(t) \subseteq OldIds(t)
                    /\ remote[profileIDs[t]] =
                            Without(remote0[profileIDs[t]], DeletedOk(t))

\* getAllExistingRules returned an error after a folder was deleted: the
\* profile has lost that folder and syncProfile has no folder outcome
C33_Witness ==
    \E t \in Tasks :
        /\ EndedEarly(t)
        /\ IndexFailed(t)
        /\ DeletedOk(t) # {}
        /\ remote[profileIDs[t]] # remote0[profileIDs[t]]
        /\ Len(remote[profileIDs[t]].groups) < Len(remote0[profileIDs[t]].groups)

----------------------------------------------------------------------------
(* C34: the index of existing rules belongs to one pipeline.  Only the      *)
(* steps of a goroutine that build its index or push its rules change its   *)
(* index, and they only add to it; every hostname in the index of a         *)
(* profile, and every hostname a push of that profile skipped as a          *)
(* duplicate, is stored in that same profile, whatever the other pipelines  *)
(* have had accepted in the meantime.                                       *)

\* the hostnames stored in the profile of goroutine t
OwnHosts(t) == NonEmpty(RemoteAllRules(remote[profileIDs[t]]))

\* the hostnames that push call k of goroutine t left out as duplicates
SkippedIn(t, k) == DefHosts(t, calls[t][k].i) \ SentIn(t, k)

C34_OwnIndex ==
    \A t \in Tasks :
        /\ existingRules[t] \subseteq OwnHosts(t)
        /\ \A k \in PushCalls(t) :
            /\ SkippedIn(t, k) \subseteq OwnHosts(t)
            /\ AcceptedIn(t, k) \subseteq existingRules[t]

\* a step changes the index of goroutine t only if it is the index or the
\* push step of t itself, and it removes nothing
C34_IndexStep ==
    \A t \in Tasks :
        /\ existingRules[t] \subseteq existingRules'[t]
        /\ existingRules'[t] # existingRules[t] =>
                /\ pc[t] \in {"index", "push"}
                /\ pc'[t] # pc[t]

C34_PrivateIndex == [](C34_OwnIndex) /\ [][C34_IndexStep]_vars

\* profile a has had the hostname H1 accepted and has it in its index, while
\* profile b is about to push its rules with an index that does not hold it
C34_Witness ==
    \E a, b \in Tasks :
        /\ a # b
        /\ \E k \in PushCalls(a) : H1 \in AcceptedIn(a, k)
        /\ H1 \in existingRules[a]
        /\ pc[b] = "push"
        /\ H1 \in DefHosts(b, idx[b])
        /\ H1 \notin existingRules[b]

----------------------------------------------------------------------------
(* C35: the counts of one call of pushRules.  pushedCount and               *)
(* duplicateCount are not negative and their sum is at most the number of   *)
(* input hostnames; the sum is that number exactly when the call reports    *)
(* success.  When every input hostname is already in the index, the call    *)
(* sends no request, reports success and pushedCount is 0.                  *)

\* every hostname given to the call is in the index it is given
AllInIndex == \A i \in 1..Len(push.hostnames) : push.hostnames[i] \in push.existing

C35_Counts ==
    push.called =>
        LET r == push.ret
            n == Len(push.hostnames)
        IN  /\ r.rulesAdded >= 0
            /\ r.duplicates >= 0
            /\ r.rulesAdded + r.duplicates <= n
            /\ (r.rulesAdded + r.duplicates = n) <=> r.ok
            /\ AllInIndex =>
                    /\ r.rulesAdded = 0
                    /\ r.duplicates = n
                    /\ r.ok
                    /\ r.batches = <<>>

\* two hostnames were skipped as duplicates and one of the two batches was
\* refused: the counts add up to less than the input and the call failed
C35_Witness ==
    /\ push.called
    /\ ~push.ret.ok
    /\ push.ret.duplicates = 2
    /\ push.ret.rulesAdded > 0
    /\ Len(push.ret.batches) = 2
    /\ push.ret.rulesAdded + push.ret.duplicates < Len(push.hostnames)

====
